---- MODULE Spec2Model ----
(***************************************************************************)
(* azalogger: a logging facade with three backends (zap, slog, in-memory)  *)
(* and a runtime log-level control endpoint.                               *)
(*                                                                         *)
(* The model follows one program run: a configuration and an environment   *)
(* are chosen, NewLogger builds one logger, and then log calls, With calls *)
(* and control requests are served on the handles of that logger.          *)
(*                                                                         *)
(* Strings that the code only compares as a whole (level names, methods)   *)
(* are TLA+ strings.  Text the code concatenates and splits (the in-memory *)
(* buffer) is a sequence of symbols, one symbol per indivisible chunk.     *)
(***************************************************************************)
EXTENDS Integers, Sequences, FiniteSets, TLC

----------------------------------------------------------------------------
(* Bounds of the model *)

\* handles of one logger: the constructed one plus those derived by With
MaxHandles == 2
\* log calls started on the in-memory logger
MaxCalls == 2
\* With calls started on the in-memory logger
MaxWith == 2
\* log calls made on the handles of a slog logger
MaxLogs == 2
\* calls on the second logger
MaxOtherOps == 2

----------------------------------------------------------------------------
(* Constants of the program *)

DebugLevel == "debug"
InfoLevel == "info"
WarnLevel == "warn"
ErrorLevel == "error"
FatalLevel == "fatal"

ZapBackend == 0
SlogBackend == 1
InMemoryBackend == 2
\* a selector outside the enumeration, as in factory_test.go
UnknownBackend == 1000

\* log/slog's numeric levels
SlogLevelDebug == -4
SlogLevelInfo == 0
SlogLevelWarn == 4
SlogLevelError == 8

StatusOK == 200
StatusBadRequest == 400
StatusForbidden == 403
StatusMethodNotAllowed == 405
StatusNotImplemented == 501

\* the nil pointer, and the address of the one level cell newSlogLogger /
\* newZapLogger allocate
Nil == "nil"
LevelCell == "&level"

----------------------------------------------------------------------------
(* Inputs *)

LevelStrings == {DebugLevel, InfoLevel, WarnLevel, ErrorLevel, FatalLevel}

\* level strings a caller, the environment or a request body may carry:
\* the five valid ones, the empty string, an unknown word, a wrong case
InputStrings == LevelStrings \cup {"", "foo", "DEBUG"}

Backends == {ZapBackend, SlogBackend, InMemoryBackend, UnknownBackend}

\* Config.Env only selects the output encoding of slog and zap, which the
\* model does not represent
Configs == [LogLevel : InputStrings, Backend : Backends]

Methods == {"GET", "PUT", "POST"}

\* The authorization predicate of a request: none supplied (nil), or one
\* that answers true / false for this request.
Auths == {"none", "allow", "deny"}

\* Request bodies, by what encoding/json makes of them:
\*   object    {"level":"<s>"} when key, {} when not key
\*   badtype   well-formed JSON of the wrong shape, e.g. {"level":5} or []
\*   malformed {"foo"}
\*   empty     no bytes at all
Bodies ==
    {[json |-> "object", key |-> TRUE, level |-> s] : s \in InputStrings}
    \cup {[json |-> k, key |-> FALSE, level |-> ""] :
            k \in {"object", "badtype", "malformed", "empty"}}

WellFormed(body) == body.json \in {"object", "badtype"}

Requests == [auth : Auths, method : Methods, body : Bodies]

\* goroutines calling the in-memory logger
Goroutines == {"g1", "g2"}
\* the goroutine that calls the second logger
OtherGoroutines == {"g3"}

\* strings the in-memory logger formats are sequences of symbols
Messages == {<<"test">>}
\* a message that holds a line terminator
MultilineMessages == {<<"a", "\n", "b">>}
\* key/value arguments of a log call: a lone key, or one full pair
KVs == {<<"app">>, <<"app", "myapp">>}

\* arguments of With: a lone key, one full pair, a pair and a lone key
WithKVs == {<<"x">>, <<"a", "1">>, <<"b", "2", "x">>}
\* two full pairs
WithTwoPairs == {<<"a", "1", "b", "2">>}

\* seq numbers the log calls in the order they were started
NoCall == [pc |-> "idle", tag |-> "", msg |-> <<>>, kv |-> <<>>,
           wrote |-> FALSE, seq |-> 0]

\* a With or Entries call: g the goroutine making it, kv the arguments of
\* With, base the length of injectedFields when With took the mutex, n the
\* number of fields With appended, at the length of history when the call
\* returned, ret the pointer With returned, past the With calls that have
\* returned, in the order they did, i the index of the loop of With
NoOp == [pc |-> "idle", g |-> "", op |-> "", kv |-> <<>>, base |-> 0,
         n |-> 0, at |-> 0, ret |-> Nil, past |-> <<>>, i |-> 0]

\* the pointer to the InMemoryLogger that newInMemoryLogger returned
MemLogger == "&InMemoryLogger"

\* zap's handler hands the body to the library unread
ZapRequests == {r \in Requests : r.body = [json |-> "object", key |-> TRUE,
                                           level |-> DebugLevel]}

----------------------------------------------------------------------------
(* State *)

VARIABLES
    env,            \* value of AZA_LOG_LEVEL ("" when unset)
    cfg,            \* the Config passed to NewLogger
    pc,             \* "start" before NewLogger, then "ready" or "failed"
    kind,           \* dynamic type of the logger NewLogger returned
    err,            \* error NewLogger returned
    handles,        \* slogLogger / zapLogger structs: [level |-> pointer]
    levelVar,       \* value of the slog.LevelVar
    atomicLevel,    \* value of the zap.AtomicLevel
    logLevel,       \* InMemoryLogger.logLevel
    req,            \* last control request served
    resp,           \* its outcome
    lastPut,        \* level string of the last PUT answered 200, or "none"
    buffer,         \* InMemoryLogger.buffer, a sequence of symbols
    injectedFields, \* InMemoryLogger.injectedFields
    mu,             \* InMemoryLogger.mu: the goroutine holding it, or ""
    calls,          \* per goroutine: the log call it is in, or its last one
    ncalls,         \* log calls started so far
    history,        \* log calls that took the mutex, in the order they did
    ops,            \* the With or Entries call holding the mutex, or the last
    nwith,          \* With calls started so far
    entries,        \* what the last Entries call returned
    stdout,         \* records the slog handler has written
    lastLog,        \* the last log call made on a slog handle
    noops,          \* the last WithContext or Sync call on the in-memory logger
    other,          \* a second logger, constructed independently
    got             \* the last LogLevel() call on a handle

fieldOps == <<ops, nwith, entries>>

memVars == <<buffer, injectedFields, mu, calls, ncalls, history, fieldOps>>

slogOut == <<stdout, lastLog>>

restVars == <<noops, other, got>>

vars == <<env, cfg, pc, kind, err, handles, levelVar, atomicLevel, logLevel,
          req, resp, lastPut, buffer, injectedFields, mu, calls, ncalls,
          history, ops, nwith, entries, stdout, lastLog, noops, other, got>>

NoRequest == [h |-> 0, auth |-> "none", method |-> "",
              body |-> [json |-> "empty", key |-> FALSE, level |-> ""]]
NoResponse == [status |-> 0, panicked |-> FALSE, ctype |-> "", level |-> "",
               text |-> "", before |-> ""]
\* out what the call returned, n the number of log calls that had taken
\* the mutex by then; prev and prevn the same of the call before it
NoEntries == [called |-> FALSE, out |-> <<>>, n |-> 0, prev |-> <<>>,
              prevn |-> 0]
NoLog == [n |-> 0, h |-> 0, tag |-> "", emitted |-> FALSE, level |-> 0,
          put |-> "none"]
NoNoop == [op |-> "", ret |-> Nil]
\* the second logger: its backend, its level, its buffer, its injected
\* fields, the holder of its mutex, the cell its struct, its buffer and its
\* level variable live in, the call in progress on it and the number of
\* calls made on it
NoOther == [kind |-> "nil", level |-> "", buffer |-> <<>>,
            injectedFields |-> <<>>, mu |-> "", cell |-> 0, op |-> "",
            n |-> 0]
\* the handle LogLevel() was called on, whether the call panicked, what it
\* returned, and what the level store of the logger held at the call
NoGot == [h |-> 0, panicked |-> FALSE, level |-> "", store |-> ""]

----------------------------------------------------------------------------
(* Level resolution and parsing *)

\* getLogLevel with the configuration consulted before the environment
getLogLevelConfigFirst(c, e) ==
    IF c.LogLevel # "" THEN c.LogLevel
    ELSE IF e # "" THEN e
    ELSE InfoLevel

\* azalogger.go: the environment wins when set, whatever it holds
getLogLevel(c, e) ==
    IF e # "" THEN e
    ELSE IF c.LogLevel # "" THEN c.LogLevel
    ELSE InfoLevel

\* parseSlogLevel with the warn case returning the info level
parseSlogLevelWarnAsInfo(level) ==
    CASE level = "debug" -> [level |-> SlogLevelDebug, err |-> FALSE]
      [] level \in {"info", "warn"} -> [level |-> SlogLevelInfo, err |-> FALSE]
      [] level \in {"error", "fatal"} -> [level |-> SlogLevelError, err |-> FALSE]
      [] OTHER -> [level |-> SlogLevelInfo, err |-> TRUE]

\* parseSlogLevel with a default case that reports no error
parseSlogLevelNoError(level) ==
    CASE level = "debug" -> [level |-> SlogLevelDebug, err |-> FALSE]
      [] level = "info"  -> [level |-> SlogLevelInfo, err |-> FALSE]
      [] level = "warn"  -> [level |-> SlogLevelWarn, err |-> FALSE]
      [] level \in {"error", "fatal"} -> [level |-> SlogLevelError, err |-> FALSE]
      [] OTHER -> [level |-> SlogLevelInfo, err |-> FALSE]

parseSlogLevel(level) ==
    CASE level = "debug" -> [level |-> SlogLevelDebug, err |-> FALSE]
      [] level = "info"  -> [level |-> SlogLevelInfo, err |-> FALSE]
      [] level = "warn"  -> [level |-> SlogLevelWarn, err |-> FALSE]
      [] level \in {"error", "fatal"} -> [level |-> SlogLevelError, err |-> FALSE]
      [] OTHER -> [level |-> SlogLevelInfo, err |-> TRUE]

\* slog.Level.String for the four named levels
SlogLevelString(l) ==
    CASE l = SlogLevelDebug -> "DEBUG"
      [] l = SlogLevelInfo  -> "INFO"
      [] l = SlogLevelWarn  -> "WARN"
      [] l = SlogLevelError -> "ERROR"

\* isValidLogLevel accepting every string
isValidLogLevelAny(s) == TRUE

isValidLogLevel(s) ==
    s \in {DebugLevel, InfoLevel, WarnLevel, ErrorLevel, FatalLevel}

----------------------------------------------------------------------------
(* Construction *)

newSlogLoggerLevel(c, e) ==
    LET r == parseSlogLevel(getLogLevel(c, e))
    IN  IF r.err THEN SlogLevelInfo ELSE r.level

\* newInMemoryLogger without the isValidLogLevel test
newInMemoryLoggerLevelUnchecked(c) == c.LogLevel

newInMemoryLoggerLevel(c) ==
    IF ~isValidLogLevel(c.LogLevel) THEN InfoLevel ELSE c.LogLevel

\* zapcore.Level.UnmarshalText is library code: the five level names give
\* their level, and whatever else the library is handed gives some level of
\* the library's choosing (info when it reports an error).
ZapLevels == {"debug", "info", "warn", "error", "dpanic", "panic", "fatal"}
createZapConfigLevels(c, e) ==
    LET s == getLogLevel(c, e)
    IN  IF s \in LevelStrings THEN {s} ELSE ZapLevels

\* Before NewLogger: every configuration, every value of the environment
InitNew ==
    /\ env \in InputStrings
    /\ cfg \in Configs
    /\ pc = "start"
    /\ kind = "nil"
    /\ err = "nil"
    /\ handles = <<>>
    /\ levelVar = 0
    /\ atomicLevel = ""
    /\ logLevel = ""
    /\ req = NoRequest
    /\ resp = NoResponse
    /\ lastPut = "none"
    /\ buffer = <<>>
    /\ injectedFields = <<>>
    /\ mu = ""
    /\ calls = [g \in Goroutines |-> NoCall]
    /\ ncalls = 0
    /\ history = <<>>
    /\ ops = NoOp
    /\ nwith = 0
    /\ entries = NoEntries
    /\ stdout = <<>>
    /\ lastLog = NoLog
    /\ noops = NoNoop
    /\ other = NoOther
    /\ got = NoGot

\* the same with AZA_LOG_LEVEL unset and a configuration level that is one
\* of the five or absent
Init ==
    /\ InitNew
    /\ env = ""
    /\ cfg.LogLevel \in LevelStrings \cup {""}

\* NewLogger with a default case that constructs a slog logger
NewLoggerDefaultsToSlog ==
    /\ pc = "start"
    /\ CASE cfg.Backend = ZapBackend ->
              /\ atomicLevel' \in createZapConfigLevels(cfg, env)
              /\ handles' = <<[level |-> LevelCell]>>
              /\ kind' = "zap" /\ pc' = "ready"
              /\ UNCHANGED <<err, levelVar, logLevel>>
         [] cfg.Backend = SlogBackend ->
              /\ levelVar' = newSlogLoggerLevel(cfg, env)
              /\ handles' = <<[level |-> LevelCell]>>
              /\ kind' = "slog" /\ pc' = "ready"
              /\ UNCHANGED <<err, atomicLevel, logLevel>>
         [] cfg.Backend = InMemoryBackend ->
              /\ logLevel' = newInMemoryLoggerLevel(cfg)
              /\ kind' = "mem" /\ pc' = "ready"
              /\ UNCHANGED <<err, handles, levelVar, atomicLevel>>
         [] OTHER ->
              /\ levelVar' = newSlogLoggerLevel(cfg, env)
              /\ handles' = <<[level |-> LevelCell]>>
              /\ kind' = "slog" /\ pc' = "ready"
              /\ UNCHANGED <<err, atomicLevel, logLevel>>
    /\ UNCHANGED <<env, cfg, req, resp, lastPut, memVars>>
    /\ UNCHANGED slogOut
    /\ UNCHANGED restVars

\* zapCfg.Build does not fail on the configurations createZapConfig makes
NewLogger ==
    /\ pc = "start"
    /\ CASE cfg.Backend = ZapBackend ->
              /\ atomicLevel' \in createZapConfigLevels(cfg, env)
              /\ handles' = <<[level |-> LevelCell]>>
              /\ kind' = "zap" /\ pc' = "ready"
              /\ UNCHANGED <<err, levelVar, logLevel>>
         [] cfg.Backend = SlogBackend ->
              /\ levelVar' = newSlogLoggerLevel(cfg, env)
              /\ handles' = <<[level |-> LevelCell]>>
              /\ kind' = "slog" /\ pc' = "ready"
              /\ UNCHANGED <<err, atomicLevel, logLevel>>
         [] cfg.Backend = InMemoryBackend ->
              /\ logLevel' = newInMemoryLoggerLevel(cfg)
              /\ kind' = "mem" /\ pc' = "ready"
              /\ UNCHANGED <<err, handles, levelVar, atomicLevel>>
         [] OTHER ->
              /\ err' = "ErrUnsupportedBackend" /\ pc' = "failed"
              /\ UNCHANGED <<kind, handles, levelVar, atomicLevel, logLevel>>
    /\ UNCHANGED <<env, cfg, req, resp, lastPut, memVars>>
    /\ UNCHANGED slogOut
    /\ UNCHANGED restVars

----------------------------------------------------------------------------
(* slog and zap: derived handles *)

\* slogLogger.With / zapLogger.With: a new struct whose logger field is the
\* derived library logger and whose level field is left at its zero value
WithStruct(l) == [level |-> Nil]

With(h) ==
    /\ pc = "ready" /\ kind \in {"slog", "zap"}
    /\ h \in DOMAIN handles
    /\ Len(handles) < MaxHandles
    /\ handles' = Append(handles, WithStruct(handles[h]))
    /\ UNCHANGED <<env, cfg, pc, kind, err, levelVar, atomicLevel, logLevel,
                   req, resp, lastPut, memVars>>
    /\ UNCHANGED slogOut
    /\ UNCHANGED restVars

\* WithContext: the same handle when the context carries no valid span,
\* otherwise With("trace_id", ..., "span_id", ...)
WithContext(h, spanValid) ==
    /\ pc = "ready" /\ kind \in {"slog", "zap"}
    /\ h \in DOMAIN handles
    /\ IF ~spanValid
       THEN UNCHANGED handles
       ELSE /\ Len(handles) < MaxHandles
            /\ handles' = Append(handles, WithStruct(handles[h]))
    /\ UNCHANGED <<env, cfg, pc, kind, err, levelVar, atomicLevel, logLevel,
                   req, resp, lastPut, memVars>>
    /\ UNCHANGED slogOut
    /\ UNCHANGED restVars

\* slogLogger.LogLevel: l.level.Level().String(), a nil pointer dereference
\* when the level field is nil.  zapLogger.LogLevel: l.logger.Level()
\* .String(), the level of the core the derived logger shares
LogLevel(h) ==
    /\ pc = "ready" /\ kind \in {"slog", "zap"}
    /\ h \in DOMAIN handles
    /\ got' = IF kind = "zap"
              THEN [h |-> h, panicked |-> FALSE, level |-> atomicLevel,
                    store |-> atomicLevel]
              ELSE IF handles[h].level = Nil
              THEN [h |-> h, panicked |-> TRUE, level |-> "",
                    store |-> SlogLevelString(levelVar)]
              ELSE [h |-> h, panicked |-> FALSE,
                    level |-> SlogLevelString(levelVar),
                    store |-> SlogLevelString(levelVar)]
    /\ UNCHANGED <<env, cfg, pc, kind, err, handles, levelVar, atomicLevel,
                   logLevel, req, resp, lastPut, memVars, slogOut, noops,
                   other>>

----------------------------------------------------------------------------
(* The control endpoint *)

\* json.NewDecoder(r.Body).Decode(&payload) into struct{ Level string }
Decode(body) ==
    [err   |-> body.json \in {"empty", "malformed", "badtype"},
     Level |-> IF body.json = "object" /\ body.key THEN body.level ELSE ""]

\* textual form of the level store, as LogLevel() reports it
CurrentLevel ==
    CASE kind = "slog" -> SlogLevelString(levelVar)
      [] kind = "zap"  -> atomicLevel
      [] kind = "mem"  -> logLevel
      [] OTHER -> ""

Reply(status, ctype, level, text) ==
    [status |-> status, panicked |-> FALSE, ctype |-> ctype, level |-> level,
     text |-> text, before |-> CurrentLevel]

\* a nil pointer dereference inside the handler: no response is written
Panic ==
    [status |-> 0, panicked |-> TRUE, ctype |-> "", level |-> "",
     text |-> "", before |-> CurrentLevel]

\* the authorization test with the predicate's answer inverted
ForbiddenInverted(auth) == auth # "none" /\ auth # "deny"

\* authHandler != nil && !authHandler(r)
Forbidden(auth) == auth # "none" /\ auth # "allow"

unauthorized == Reply(StatusForbidden, "text", "", "unauthorized")
\* an undecodable body answered 200
invalidPayloadAccepted == Reply(StatusOK, "", "", "")
invalidPayload == Reply(StatusBadRequest, "text", "", "invalid payload")
invalidLogLevel == Reply(StatusBadRequest, "text", "", "invalid log level")
\* a switch without its default case: nothing written, status 200
methodNotAllowedSilent == Reply(StatusOK, "", "", "")
methodNotAllowed ==
    Reply(StatusMethodNotAllowed, "text", "", "method not allowed")
notSupported ==
    Reply(StatusNotImplemented, "text", "",
          "log level control not supported for in-memory logger")

\* GET reading a fresh LevelVar instead of l.level
slogGetFresh(l) ==
    IF l.level = Nil THEN Panic
    ELSE Reply(StatusOK, "json", SlogLevelString(SlogLevelInfo), "")

\* case http.MethodGet: the body is encoded first, which sends status 200
slogGet(l) ==
    IF l.level = Nil THEN Panic
    ELSE Reply(StatusOK, "json", SlogLevelString(levelVar), "")

\* case http.MethodPut: the response, and the level to store if any
\* the PUT branch storing the parsed level before it looks at the error
slogPutSetsFirst(l, body) ==
    LET payload == Decode(body)
        parsed == parseSlogLevel(payload.Level)
    IN  IF payload.err THEN [resp |-> invalidPayload, set |-> FALSE]
        ELSE IF l.level = Nil THEN [resp |-> Panic, set |-> FALSE]
        ELSE IF parsed.err
             THEN [resp |-> invalidLogLevel, set |-> TRUE,
                   level |-> SlogLevelDebug, name |-> payload.Level]
        ELSE [resp |-> Reply(StatusOK, "", "", ""), set |-> TRUE,
              level |-> parsed.level, name |-> payload.Level]

slogPut(l, body) ==
    LET payload == Decode(body)
        parsed == parseSlogLevel(payload.Level)
    IN  IF payload.err THEN [resp |-> invalidPayload, set |-> FALSE]
        ELSE IF parsed.err THEN [resp |-> invalidLogLevel, set |-> FALSE]
        ELSE IF l.level = Nil THEN [resp |-> Panic, set |-> FALSE]
        ELSE [resp |-> Reply(StatusOK, "", "", ""), set |-> TRUE,
              level |-> parsed.level, name |-> payload.Level]

slogHTTPLevelHandler(h, r) ==
    /\ pc = "ready" /\ kind = "slog"
    /\ h \in DOMAIN handles
    /\ req' = [h |-> h, auth |-> r.auth, method |-> r.method, body |-> r.body]
    /\ IF Forbidden(r.auth)
       THEN /\ resp' = unauthorized
            /\ UNCHANGED <<levelVar, lastPut>>
       ELSE CASE r.method = "GET" ->
                   /\ resp' = slogGet(handles[h])
                   /\ UNCHANGED <<levelVar, lastPut>>
              [] r.method = "PUT" ->
                   LET put == slogPut(handles[h], r.body)
                   IN  /\ resp' = put.resp
                       /\ IF put.set
                          THEN /\ levelVar' = put.level
                               /\ lastPut' = put.name
                          ELSE UNCHANGED <<levelVar, lastPut>>
              [] OTHER ->
                   /\ resp' = methodNotAllowed
                   /\ UNCHANGED <<levelVar, lastPut>>
    /\ UNCHANGED <<env, cfg, pc, kind, err, handles, atomicLevel, logLevel,
                   memVars>>
    /\ UNCHANGED slogOut
    /\ UNCHANGED restVars

\* zapLogger.HTTPLevelHandler: the authorization check, then
\* l.level.ServeHTTP(w, r).  zap.AtomicLevel.ServeHTTP is library code with a
\* value receiver, so the call first dereferences l.level.  What the library
\* answers is left open: GET reports the level, PUT either rejects the body
\* or stores some level, any other method is refused.
zapHTTPLevelHandler(h, r) ==
    /\ pc = "ready" /\ kind = "zap"
    /\ h \in DOMAIN handles
    /\ req' = [h |-> h, auth |-> r.auth, method |-> r.method, body |-> r.body]
    /\ IF Forbidden(r.auth)
       THEN /\ resp' = unauthorized
            /\ UNCHANGED atomicLevel
       ELSE IF handles[h].level = Nil
       THEN /\ resp' = Panic
            /\ UNCHANGED atomicLevel
       ELSE CASE r.method = "GET" ->
                   /\ resp' = Reply(StatusOK, "json", atomicLevel, "")
                   /\ UNCHANGED atomicLevel
              [] r.method = "PUT" ->
                   \/ /\ resp' = Reply(StatusBadRequest, "json", "", "error")
                      /\ UNCHANGED atomicLevel
                   \/ \E z \in ZapLevels :
                        /\ atomicLevel' = z
                        /\ resp' = Reply(StatusOK, "json", z, "")
              [] OTHER ->
                   /\ resp' = Reply(StatusMethodNotAllowed, "json", "", "error")
                   /\ UNCHANGED atomicLevel
    /\ UNCHANGED <<env, cfg, pc, kind, err, handles, levelVar, logLevel,
                   lastPut, memVars>>
    /\ UNCHANGED slogOut
    /\ UNCHANGED restVars

\* an in-memory handler that stores the level a PUT names
memHTTPLevelHandlerSets(r) ==
    /\ pc = "ready" /\ kind = "mem"
    /\ r.auth = "none"
    /\ req' = [h |-> 1, auth |-> r.auth, method |-> r.method, body |-> r.body]
    /\ resp' = notSupported
    /\ logLevel' = IF r.method = "PUT" /\ r.body.level \in LevelStrings
                   THEN r.body.level ELSE logLevel
    /\ UNCHANGED <<env, cfg, pc, kind, err, handles, levelVar, atomicLevel,
                   lastPut, memVars>>
    /\ UNCHANGED slogOut
    /\ UNCHANGED restVars

\* InMemoryLogger.HTTPLevelHandler takes no predicate and answers 501
memHTTPLevelHandler(r) ==
    /\ pc = "ready" /\ kind = "mem"
    /\ r.auth = "none"
    /\ req' = [h |-> 1, auth |-> r.auth, method |-> r.method, body |-> r.body]
    /\ resp' = notSupported
    /\ UNCHANGED <<env, cfg, pc, kind, err, handles, levelVar, atomicLevel,
                   logLevel, lastPut, memVars>>
    /\ UNCHANGED slogOut
    /\ UNCHANGED restVars

----------------------------------------------------------------------------
(* slog: log calls *)

\* a handler built with a level of its own, fixed at info
slogEnabledFixed(level) == level >= SlogLevelInfo

\* the handler's Enabled: its options hold the LevelVar of newSlogLogger,
\* and the handlers of derived loggers keep the options
slogEnabled(level) == level >= levelVar

\* a log call whose handler, on a derived handle, took a copy of the level
\* when it was derived
slogLogDerivedFixed(h, tag, level, exits) ==
    LET enabled == IF h = 1 THEN slogEnabled(level)
                   ELSE slogEnabledFixed(level)
    IN
    /\ pc = "ready" /\ kind = "slog"
    /\ h \in DOMAIN handles
    /\ lastLog.n < MaxLogs
    /\ stdout' = IF enabled
                 THEN Append(stdout, [level |-> SlogLevelString(level)])
                 ELSE stdout
    /\ lastLog' = [n |-> lastLog.n + 1, h |-> h, tag |-> tag,
                   emitted |-> enabled, level |-> levelVar,
                   put |-> lastPut]
    /\ pc' = IF exits THEN "exited" ELSE pc
    /\ UNCHANGED <<env, cfg, kind, err, handles, levelVar, atomicLevel,
                   logLevel, req, resp, lastPut, memVars>>
    /\ UNCHANGED restVars

\* a log call on a handle: l.logger.Debug / Info / Warn / Error, which write
\* one record when the handler is enabled for the level; Fatal logs at the
\* error level and then leaves the process with os.Exit(1)
slogLog(h, tag, level, exits) ==
    /\ pc = "ready" /\ kind = "slog"
    /\ h \in DOMAIN handles
    /\ lastLog.n < MaxLogs
    /\ stdout' = IF slogEnabled(level)
                 THEN Append(stdout, [level |-> SlogLevelString(level)])
                 ELSE stdout
    /\ lastLog' = [n |-> lastLog.n + 1, h |-> h, tag |-> tag,
                   emitted |-> slogEnabled(level), level |-> levelVar,
                   put |-> lastPut]
    /\ pc' = IF exits THEN "exited" ELSE pc
    /\ UNCHANGED <<env, cfg, kind, err, handles, levelVar, atomicLevel,
                   logLevel, req, resp, lastPut, memVars>>
    /\ UNCHANGED restVars

slogDebug(h) == slogLog(h, "DEBUG", SlogLevelDebug, FALSE)
slogInfo(h) == slogLog(h, "INFO", SlogLevelInfo, FALSE)
slogWarn(h) == slogLog(h, "WARN", SlogLevelWarn, FALSE)
slogError(h) == slogLog(h, "ERROR", SlogLevelError, FALSE)
slogFatal(h) == slogLog(h, "FATAL", SlogLevelError, TRUE)

----------------------------------------------------------------------------
(* The in-memory logger *)

\* the level tests of Debug, Info, Warn and Error; Fatal has none
DebugEnabled(level) == level = DebugLevel
InfoEnabled(level) == level = DebugLevel \/ level = InfoLevel
\* Warn's test without its own level
WarnEnabledBelowWarn(level) == level = DebugLevel \/ level = InfoLevel
WarnEnabled(level) ==
    level = DebugLevel \/ level = InfoLevel \/ level = WarnLevel
ErrorEnabled(level) ==
    level = DebugLevel \/ level = InfoLevel \/ level = WarnLevel
        \/ level = ErrorLevel

\* the kv loop of log writing an unpaired last element as a key without value
RECURSIVE FormatPairsKeepsLast(_, _)
FormatPairsKeepsLast(kv, i) ==
    IF i > Len(kv) THEN <<>>
    ELSE IF i + 1 <= Len(kv)
         THEN <<" ", kv[i], "=", kv[i + 1]>> \o FormatPairsKeepsLast(kv, i + 2)
         ELSE <<" ", kv[i], "=", "">>

\* the kv loop of log and With: " key=value" for every full pair, an unpaired
\* last element is skipped
RECURSIVE FormatPairs(_, _)
FormatPairs(kv, i) ==
    IF i > Len(kv) THEN <<>>
    ELSE IF i + 1 <= Len(kv)
         THEN <<" ", kv[i], "=", kv[i + 1]>> \o FormatPairs(kv, i + 2)
         ELSE FormatPairs(kv, i + 2)

RECURSIVE FormatFields(_, _)
FormatFields(fields, i) ==
    IF i > Len(fields) THEN <<>>
    ELSE <<" ">> \o fields[i] \o FormatFields(fields, i + 1)

\* a leveled call up to l.log: the level is read without the lock, and the
\* call returns at once when its test fails
Call(g, tag, enabled, msg, kv) ==
    /\ pc = "ready" /\ kind = "mem"
    /\ calls[g].pc = "idle"
    /\ ~(ops.pc # "idle" /\ ops.g = g)
    /\ ncalls < MaxCalls
    /\ ncalls' = ncalls + 1
    /\ calls' = [calls EXCEPT ![g] =
                    [pc |-> IF enabled THEN "lock" ELSE "idle", tag |-> tag,
                     msg |-> msg, kv |-> kv, wrote |-> FALSE,
                     seq |-> ncalls + 1]]
    /\ UNCHANGED <<env, cfg, pc, kind, err, handles, levelVar, atomicLevel,
                   logLevel, req, resp, lastPut, buffer, injectedFields, mu>>
    /\ UNCHANGED <<history, fieldOps, slogOut>>
    /\ UNCHANGED restVars

Debug(g, msg, kv) == Call(g, "DEBUG", DebugEnabled(logLevel), msg, kv)
Info(g, msg, kv) == Call(g, "INFO", InfoEnabled(logLevel), msg, kv)
Warn(g, msg, kv) == Call(g, "WARN", WarnEnabled(logLevel), msg, kv)
Error(g, msg, kv) == Call(g, "ERROR", ErrorEnabled(logLevel), msg, kv)
Fatal(g, msg, kv) == Call(g, "FATAL", TRUE, msg, kv)

\* log taking the mutex while another goroutine holds it
logLockNoWait(g) ==
    /\ calls[g].pc = "lock"
    /\ mu' = g
    /\ calls' = [calls EXCEPT ![g].pc = "header"]
    /\ history' = Append(history,
                     [g |-> g, seq |-> calls[g].seq, tag |-> calls[g].tag,
                      msg |-> calls[g].msg, kv |-> calls[g].kv,
                      nf |-> Len(injectedFields)])
    /\ UNCHANGED <<env, cfg, pc, kind, err, handles, levelVar, atomicLevel,
                   logLevel, req, resp, lastPut, buffer, injectedFields, ncalls>>
    /\ UNCHANGED <<fieldOps, slogOut>>
    /\ UNCHANGED restVars

\* l.mu.Lock(); history records the call and the number of injected fields
\* it found
logLock(g) ==
    /\ calls[g].pc = "lock"
    /\ mu = ""
    /\ mu' = g
    /\ calls' = [calls EXCEPT ![g].pc = "header"]
    /\ history' = Append(history,
                     [g |-> g, seq |-> calls[g].seq, tag |-> calls[g].tag,
                      msg |-> calls[g].msg, kv |-> calls[g].kv,
                      nf |-> Len(injectedFields)])
    /\ UNCHANGED <<env, cfg, pc, kind, err, handles, levelVar, atomicLevel,
                   logLevel, req, resp, lastPut, buffer, injectedFields, ncalls>>
    /\ UNCHANGED <<fieldOps, slogOut>>
    /\ UNCHANGED restVars

\* log releasing the mutex after the header of its entry
logHeaderUnlocks(g) ==
    /\ calls[g].pc = "header"
    /\ buffer' = buffer \o <<"[", calls[g].tag, "] ">> \o calls[g].msg
    /\ calls' = [calls EXCEPT ![g].pc = "kv"]
    /\ mu' = ""
    /\ UNCHANGED <<env, cfg, pc, kind, err, handles, levelVar, atomicLevel,
                   logLevel, req, resp, lastPut, injectedFields, ncalls>>
    /\ UNCHANGED <<history, fieldOps, slogOut>>
    /\ UNCHANGED restVars

\* fmt.Fprintf(l.buffer, "[%s] %s", level, msg)
logHeader(g) ==
    /\ calls[g].pc = "header"
    /\ buffer' = buffer \o <<"[", calls[g].tag, "] ">> \o calls[g].msg
    /\ calls' = [calls EXCEPT ![g].pc = "kv"]
    /\ UNCHANGED <<env, cfg, pc, kind, err, handles, levelVar, atomicLevel,
                   logLevel, req, resp, lastPut, injectedFields, mu, ncalls>>
    /\ UNCHANGED <<history, fieldOps, slogOut>>
    /\ UNCHANGED restVars

\* the loop over the call's key/value arguments
logPairs(g) ==
    /\ calls[g].pc = "kv"
    /\ buffer' = buffer \o FormatPairs(calls[g].kv, 1)
    /\ calls' = [calls EXCEPT ![g].pc = "fields"]
    /\ UNCHANGED <<env, cfg, pc, kind, err, handles, levelVar, atomicLevel,
                   logLevel, req, resp, lastPut, injectedFields, mu, ncalls>>
    /\ UNCHANGED <<history, fieldOps, slogOut>>
    /\ UNCHANGED restVars

\* the loop over l.injectedFields
logFields(g) ==
    /\ calls[g].pc = "fields"
    /\ buffer' = buffer \o FormatFields(injectedFields, 1)
    /\ calls' = [calls EXCEPT ![g].pc = "newline"]
    /\ UNCHANGED <<env, cfg, pc, kind, err, handles, levelVar, atomicLevel,
                   logLevel, req, resp, lastPut, injectedFields, mu, ncalls>>
    /\ UNCHANGED <<history, fieldOps, slogOut>>
    /\ UNCHANGED restVars

\* log returning without the deferred l.mu.Unlock()
logNewlineKeepsLock(g) ==
    /\ calls[g].pc = "newline"
    /\ buffer' = Append(buffer, "\n")
    /\ mu' = mu
    /\ calls' = [calls EXCEPT ![g].pc = "idle", ![g].wrote = TRUE]
    /\ UNCHANGED <<env, cfg, pc, kind, err, handles, levelVar, atomicLevel,
                   logLevel, req, resp, lastPut, injectedFields, ncalls>>
    /\ UNCHANGED <<history, fieldOps, slogOut>>
    /\ UNCHANGED restVars

\* l.buffer.WriteByte('\n'), then the deferred l.mu.Unlock() and the return
logNewline(g) ==
    /\ calls[g].pc = "newline"
    /\ buffer' = Append(buffer, "\n")
    /\ mu' = ""
    /\ calls' = [calls EXCEPT ![g].pc = "idle", ![g].wrote = TRUE]
    /\ UNCHANGED <<env, cfg, pc, kind, err, handles, levelVar, atomicLevel,
                   logLevel, req, resp, lastPut, injectedFields, ncalls>>
    /\ UNCHANGED <<history, fieldOps, slogOut>>
    /\ UNCHANGED restVars

\* the loop of With keeping an unpaired last element as a key without value
RECURSIVE WithFieldsKeepsLast(_, _)
WithFieldsKeepsLast(kv, i) ==
    IF i > Len(kv) THEN <<>>
    ELSE IF i + 1 <= Len(kv)
         THEN <<(<<kv[i], "=", kv[i + 1]>>)>> \o WithFieldsKeepsLast(kv, i + 2)
         ELSE <<(<<kv[i], "=", "">>)>>

\* the loop of With: fmt.Sprintf("%v=%v", kv[i], kv[i+1]) for every full
\* pair, an unpaired last element is skipped
RECURSIVE WithFields(_, _)
WithFields(kv, i) ==
    IF i > Len(kv) THEN <<>>
    ELSE IF i + 1 <= Len(kv)
         THEN <<(<<kv[i], "=", kv[i + 1]>>)>> \o WithFields(kv, i + 2)
         ELSE WithFields(kv, i + 2)

\* With replacing the injected fields by those of this call
memWithFieldsReplaced(fields, kv) == WithFields(kv, 1)

\* l.injectedFields after the loop of With
memWithFields(fields, kv) == fields \o WithFields(kv, 1)

\* With returning a copy of the logger
memWithResultCopy(l) == "&copy"

\* return l
memWithResult(l) == l

\* InMemoryLogger.With up to l.mu.Lock()
memWith(g, kv) ==
    /\ pc = "ready" /\ kind = "mem"
    /\ calls[g].pc = "idle"
    /\ nwith < MaxWith
    /\ mu = ""
    /\ mu' = g
    /\ nwith' = nwith + 1
    /\ ops' = [pc |-> "append", g |-> g, op |-> "With", kv |-> kv,
               base |-> Len(injectedFields), n |-> 0, at |-> 0, ret |-> Nil,
               past |-> ops.past, i |-> 1]
    /\ UNCHANGED <<env, cfg, pc, kind, err, handles, levelVar, atomicLevel,
                   logLevel, req, resp, lastPut, buffer, injectedFields,
                   calls, ncalls, history, entries, slogOut>>
    /\ UNCHANGED restVars

\* the last argument index of the loop iteration that starts at i
IterationEnd(kv, i) == IF i + 1 <= Len(kv) THEN i + 1 ELSE Len(kv)

\* an iteration of the loop of With that releases the mutex
memWithAppendUnlocks(g) ==
    /\ ops.pc = "append" /\ ops.g = g
    /\ ops.i <= Len(ops.kv)
    /\ injectedFields' =
         memWithFields(injectedFields,
                       SubSeq(ops.kv, ops.i, IterationEnd(ops.kv, ops.i)))
    /\ ops' = [ops EXCEPT !.i = ops.i + 2]
    /\ mu' = ""
    /\ UNCHANGED <<env, cfg, pc, kind, err, handles, levelVar, atomicLevel,
                   logLevel, req, resp, lastPut, buffer, calls, ncalls,
                   history, nwith, entries, slogOut, restVars>>

\* one iteration of the loop of With, over kv[i] and kv[i+1]
memWithAppend(g) ==
    /\ ops.pc = "append" /\ ops.g = g
    /\ ops.i <= Len(ops.kv)
    /\ injectedFields' =
         memWithFields(injectedFields,
                       SubSeq(ops.kv, ops.i, IterationEnd(ops.kv, ops.i)))
    /\ ops' = [ops EXCEPT !.i = ops.i + 2]
    /\ UNCHANGED <<env, cfg, pc, kind, err, handles, levelVar, atomicLevel,
                   logLevel, req, resp, lastPut, buffer, mu, calls, ncalls,
                   history, nwith, entries, slogOut, restVars>>

\* the end of the loop of With, then the deferred l.mu.Unlock() and return l
memWithReturn(g) ==
    /\ ops.pc = "append" /\ ops.g = g
    /\ ops.i > Len(ops.kv)
    /\ UNCHANGED injectedFields
    /\ mu' = ""
    /\ ops' = [ops EXCEPT !.pc = "idle",
                          !.n = Len(injectedFields) - ops.base,
                          !.at = Len(history),
                          !.ret = memWithResult(MemLogger),
                          !.past = Append(ops.past, [kv |-> ops.kv,
                                                     at |-> Len(history)])]
    /\ UNCHANGED <<env, cfg, pc, kind, err, handles, levelVar, atomicLevel,
                   logLevel, req, resp, lastPut, buffer, calls, ncalls,
                   history, nwith, entries, slogOut>>
    /\ UNCHANGED restVars

\* WithContext returning a logger without the injected fields
memWithContextResets(g) ==
    /\ pc = "ready" /\ kind = "mem"
    /\ calls[g].pc = "idle"
    /\ ~(ops.pc # "idle" /\ ops.g = g)
    /\ noops' = [op |-> "WithContext", ret |-> MemLogger]
    /\ injectedFields' = <<>>
    /\ UNCHANGED <<env, cfg, pc, kind, err, handles, levelVar, atomicLevel,
                   logLevel, req, resp, lastPut, buffer, mu, calls, ncalls,
                   history, fieldOps, slogOut, other, got>>

\* InMemoryLogger.WithContext: return l, without taking the mutex
memWithContext(g) ==
    /\ pc = "ready" /\ kind = "mem"
    /\ calls[g].pc = "idle"
    /\ ~(ops.pc # "idle" /\ ops.g = g)
    /\ noops' = [op |-> "WithContext", ret |-> MemLogger]
    /\ UNCHANGED <<env, cfg, pc, kind, err, handles, levelVar, atomicLevel,
                   logLevel, req, resp, lastPut, memVars, slogOut, other, got>>

\* InMemoryLogger.Sync: an empty body
memSync(g) ==
    /\ pc = "ready" /\ kind = "mem"
    /\ calls[g].pc = "idle"
    /\ ~(ops.pc # "idle" /\ ops.g = g)
    /\ noops' = [op |-> "Sync", ret |-> Nil]
    /\ UNCHANGED <<env, cfg, pc, kind, err, handles, levelVar, atomicLevel,
                   logLevel, req, resp, lastPut, memVars, slogOut, other, got>>

\* InMemoryLogger.LogLevel: l.logLevel.String(), read without the mutex
memLogLevel(g) ==
    /\ pc = "ready" /\ kind = "mem"
    /\ calls[g].pc = "idle"
    /\ ~(ops.pc # "idle" /\ ops.g = g)
    /\ got' = [h |-> 1, panicked |-> FALSE, level |-> logLevel,
               store |-> logLevel]
    /\ UNCHANGED <<env, cfg, pc, kind, err, handles, levelVar, atomicLevel,
                   logLevel, req, resp, lastPut, memVars, slogOut, noops,
                   other>>

\* strings.Split(s, "\n"): the pieces of s between its line terminators,
\* one more than there are terminators
RECURSIVE Split(_)
Split(s) ==
    IF \A i \in 1..Len(s) : s[i] # "\n" THEN <<s>>
    ELSE LET i == CHOOSE k \in 1..Len(s) :
                      s[k] = "\n" /\ \A j \in 1..(k - 1) : s[j] # "\n"
         IN  <<SubSeq(s, 1, i - 1)>> \o Split(SubSeq(s, i + 1, Len(s)))

\* Entries returning the pieces without the last one
EntriesResultTrimmed(s) == SubSeq(Split(s), 1, Len(Split(s)) - 1)

\* strings.Split(l.buffer.String(), "\n")
EntriesResult(s) == Split(s)

\* InMemoryLogger.Entries up to l.mu.Lock()
Entries(g) ==
    /\ pc = "ready" /\ kind = "mem"
    /\ calls[g].pc = "idle"
    /\ mu = ""
    /\ mu' = g
    /\ ops' = [NoOp EXCEPT !.pc = "split", !.g = g, !.op = "Entries",
                           !.past = ops.past]
    /\ UNCHANGED <<env, cfg, pc, kind, err, handles, levelVar, atomicLevel,
                   logLevel, req, resp, lastPut, buffer, injectedFields,
                   calls, ncalls, history, nwith, entries, slogOut>>
    /\ UNCHANGED restVars

\* Entries emptying the buffer it has read
EntriesReturnDrains(g) ==
    /\ ops.pc = "split" /\ ops.g = g
    /\ entries' = [called |-> TRUE, out |-> EntriesResult(buffer),
                   n |-> Len(history), prev |-> entries.out,
                   prevn |-> entries.n]
    /\ mu' = ""
    /\ buffer' = <<>>
    /\ ops' = [ops EXCEPT !.pc = "idle", !.at = Len(history)]
    /\ UNCHANGED <<env, cfg, pc, kind, err, handles, levelVar, atomicLevel,
                   logLevel, req, resp, lastPut, injectedFields,
                   calls, ncalls, history, nwith, slogOut>>
    /\ UNCHANGED restVars

\* the split of the buffer, then the deferred l.mu.Unlock() and the return;
\* n is the number of log calls that had taken the mutex by then
EntriesReturn(g) ==
    /\ ops.pc = "split" /\ ops.g = g
    /\ entries' = [called |-> TRUE, out |-> EntriesResult(buffer),
                   n |-> Len(history), prev |-> entries.out,
                   prevn |-> entries.n]
    /\ mu' = ""
    /\ ops' = [ops EXCEPT !.pc = "idle", !.at = Len(history)]
    /\ UNCHANGED <<env, cfg, pc, kind, err, handles, levelVar, atomicLevel,
                   logLevel, req, resp, lastPut, buffer, injectedFields,
                   calls, ncalls, history, nwith, slogOut>>
    /\ UNCHANGED restVars

----------------------------------------------------------------------------
(* Specifications *)

Next ==
    \/ NewLogger
    \/ \E h \in 1..MaxHandles : With(h)
    \/ \E h \in 1..MaxHandles, v \in BOOLEAN : WithContext(h, v)
    \/ \E h \in 1..MaxHandles, r \in Requests : slogHTTPLevelHandler(h, r)
    \/ \E h \in 1..MaxHandles, r \in ZapRequests : zapHTTPLevelHandler(h, r)
    \/ \E r \in Requests : memHTTPLevelHandler(r)

Spec == Init /\ [][Next]_vars

\* construction alone, over every configuration and environment
SpecNew == InitNew /\ [][NewLogger]_vars

\* the in-memory logger under concurrent callers
InitMem ==
    /\ InitNew
    /\ env = ""
    /\ cfg.Backend = InMemoryBackend

NextMem ==
    \/ NewLogger
    \/ \E g \in Goroutines, msg \in Messages, kv \in KVs : Debug(g, msg, kv)
    \/ \E g \in Goroutines, msg \in Messages, kv \in KVs : Info(g, msg, kv)
    \/ \E g \in Goroutines, msg \in Messages, kv \in KVs : Warn(g, msg, kv)
    \/ \E g \in Goroutines, msg \in Messages, kv \in KVs : Error(g, msg, kv)
    \/ \E g \in Goroutines, msg \in Messages, kv \in KVs : Fatal(g, msg, kv)
    \/ \E g \in Goroutines : logLock(g)
    \/ \E g \in Goroutines : logHeader(g)
    \/ \E g \in Goroutines : logPairs(g)
    \/ \E g \in Goroutines : logFields(g)
    \/ \E g \in Goroutines : logNewline(g)

SpecMem == InitMem /\ [][NextMem]_vars

\* a slog logger at level info: log calls on its handles between
\* authorized PUT requests of a level
InitLog ==
    /\ InitNew
    /\ env = ""
    /\ cfg = [LogLevel |-> InfoLevel, Backend |-> SlogBackend]

LevelRequests ==
    {r \in Requests : r.auth = "allow" /\ r.method = "PUT" /\ r.body.key}

NextLog ==
    \/ NewLogger
    \/ \E h \in 1..MaxHandles : With(h)
    \/ \E h \in 1..MaxHandles, r \in LevelRequests :
          slogHTTPLevelHandler(h, r)
    \/ \E h \in 1..MaxHandles : slogDebug(h)
    \/ \E h \in 1..MaxHandles : slogInfo(h)
    \/ \E h \in 1..MaxHandles : slogWarn(h)
    \/ \E h \in 1..MaxHandles : slogError(h)
    \/ \E h \in 1..MaxHandles : slogFatal(h)

SpecLog == InitLog /\ [][NextLog]_vars

\* a slog logger at level info whose handles are all derived before the
\* first successful PUT
NextDerived ==
    \/ NewLogger
    \/ \E h \in 1..MaxHandles : lastPut = "none" /\ With(h)
    \/ \E h \in 1..MaxHandles, r \in LevelRequests :
          slogHTTPLevelHandler(h, r)
    \/ \E h \in 1..MaxHandles : slogDebug(h)
    \/ \E h \in 1..MaxHandles : slogInfo(h)
    \/ \E h \in 1..MaxHandles : slogWarn(h)
    \/ \E h \in 1..MaxHandles : slogError(h)
    \/ \E h \in 1..MaxHandles : slogFatal(h)

SpecDerived == InitLog /\ [][NextDerived]_vars

\* slog and in-memory loggers constructed from valid and invalid strings,
\* then log calls, With calls and PUT requests with every kind of body
InitStore ==
    /\ InitNew
    /\ env \in {"", "foo"}
    /\ cfg.LogLevel \in {"", "DEBUG", FatalLevel}
    /\ cfg.Backend \in {SlogBackend, InMemoryBackend}

\* PUT requests without an authorization handler: bodies naming warn,
\* fatal, "DEBUG" and "", the body {} and a malformed one
PutRequests ==
    {r \in Requests :
        /\ r.auth = "none" /\ r.method = "PUT"
        /\ r.body.json \in {"object", "malformed"}
        /\ r.body.level \in {"", WarnLevel, FatalLevel, "DEBUG"}}

NextStore ==
    \/ NewLogger
    \/ \E h \in 1..MaxHandles : With(h)
    \/ \E h \in 1..MaxHandles, r \in PutRequests : slogHTTPLevelHandler(h, r)
    \/ \E h \in 1..MaxHandles : slogWarn(h)
    \/ \E r \in PutRequests : memHTTPLevelHandler(r)
    \/ \E g \in Goroutines, msg \in Messages : Warn(g, msg, <<"app">>)
    \/ \E g \in Goroutines : logLock(g)
    \/ \E g \in Goroutines : logHeader(g)
    \/ \E g \in Goroutines : logPairs(g)
    \/ \E g \in Goroutines : logFields(g)
    \/ \E g \in Goroutines : logNewline(g)
    \/ \E g \in Goroutines : memWith(g, <<"a", "1">>)
    \/ \E g \in Goroutines : memWithAppend(g)
    \/ \E g \in Goroutines : memWithReturn(g)

SpecStore == InitStore /\ [][NextStore]_vars

\* every operation of an in-memory logger constructed from a valid or an
\* invalid level string
InitFrame ==
    /\ InitNew
    /\ env = ""
    /\ cfg.LogLevel \in {WarnLevel, "foo"}
    /\ cfg.Backend = InMemoryBackend

NextFrame ==
    \/ NewLogger
    \/ \E g \in Goroutines, msg \in Messages : Error(g, msg, <<"app">>)
    \/ \E g \in Goroutines : logLock(g)
    \/ \E g \in Goroutines : logHeader(g)
    \/ \E g \in Goroutines : logPairs(g)
    \/ \E g \in Goroutines : logFields(g)
    \/ \E g \in Goroutines : logNewline(g)
    \/ \E g \in Goroutines : memWith(g, <<"a", "1">>)
    \/ \E g \in Goroutines : memWithAppend(g)
    \/ \E g \in Goroutines : memWithReturn(g)
    \/ \E g \in Goroutines : ~entries.called /\ Entries(g)
    \/ \E g \in Goroutines : EntriesReturn(g)
    \/ \E g \in Goroutines : memWithContext(g)
    \/ \E g \in Goroutines : memSync(g)
    \/ \E g \in Goroutines : memLogLevel(g)
    \/ \E r \in PutRequests : r.body.level = WarnLevel /\ memHTTPLevelHandler(r)

SpecFrame == InitFrame /\ [][NextFrame]_vars

\* the in-memory logger at level info
InitInfo ==
    /\ InitNew
    /\ env = ""
    /\ cfg = [LogLevel |-> InfoLevel, Backend |-> InMemoryBackend]

\* log calls under concurrent calls of With
NextFields ==
    \/ NewLogger
    \/ \E g \in Goroutines, msg \in Messages : Info(g, msg, <<"app">>)
    \/ \E g \in Goroutines, msg \in Messages :
          Error(g, msg, <<"app", "myapp">>)
    \/ \E g \in Goroutines : logLock(g)
    \/ \E g \in Goroutines : logHeader(g)
    \/ \E g \in Goroutines : logPairs(g)
    \/ \E g \in Goroutines : logFields(g)
    \/ \E g \in Goroutines : logNewline(g)
    \/ \E g \in Goroutines, kv \in WithKVs : memWith(g, kv)
    \/ \E g \in Goroutines : memWithAppend(g)
    \/ \E g \in Goroutines : memWithReturn(g)

SpecFields == InitInfo /\ [][NextFields]_vars

\* log calls, some of them of messages that hold a line terminator, under
\* concurrent calls of Entries
NextEntries ==
    \/ NewLogger
    \/ \E g \in Goroutines, msg \in Messages, kv \in KVs : Debug(g, msg, kv)
    \/ \E g \in Goroutines, msg \in Messages \cup MultilineMessages,
          kv \in KVs : Info(g, msg, kv)
    \/ \E g \in Goroutines : logLock(g)
    \/ \E g \in Goroutines : logHeader(g)
    \/ \E g \in Goroutines : logPairs(g)
    \/ \E g \in Goroutines : logFields(g)
    \/ \E g \in Goroutines : logNewline(g)
    \/ \E g \in Goroutines : Entries(g)
    \/ \E g \in Goroutines : EntriesReturn(g)

SpecEntries == InitInfo /\ [][NextEntries]_vars

\* log calls, With calls of two pairs and Entries calls, all concurrent
NextAtomic ==
    \/ NewLogger
    \/ \E g \in Goroutines, msg \in Messages, kv \in KVs : Info(g, msg, kv)
    \/ \E g \in Goroutines : logLock(g)
    \/ \E g \in Goroutines : logHeader(g)
    \/ \E g \in Goroutines : logPairs(g)
    \/ \E g \in Goroutines : logFields(g)
    \/ \E g \in Goroutines : logNewline(g)
    \/ \E g \in Goroutines, kv \in WithTwoPairs : memWith(g, kv)
    \/ \E g \in Goroutines : memWithAppend(g)
    \/ \E g \in Goroutines : memWithReturn(g)
    \/ \E g \in Goroutines : Entries(g)
    \/ \E g \in Goroutines : EntriesReturn(g)

SpecAtomic == InitInfo /\ [][NextAtomic]_vars

\* slog and zap loggers, the handles With and WithContext derive from
\* them, and LogLevel() on every handle
InitLevel ==
    /\ InitNew
    /\ env = ""
    /\ cfg.LogLevel \in {"", WarnLevel}
    /\ cfg.Backend \in {SlogBackend, ZapBackend}

NextLevel ==
    \/ NewLogger
    \/ \E h \in 1..MaxHandles : With(h)
    \/ \E h \in 1..MaxHandles, spanValid \in BOOLEAN : WithContext(h, spanValid)
    \/ \E h \in 1..MaxHandles, r \in PutRequests : slogHTTPLevelHandler(h, r)
    \/ \E h \in 1..MaxHandles : LogLevel(h)

SpecLevel == InitLevel /\ [][NextLevel]_vars

----------------------------------------------------------------------------
(* Calls that wait for the mutex, and the scheduling they rely on *)

\* a With call arriving at l.mu.Lock()
WithWaits(g, kv) ==
    /\ pc = "ready" /\ kind = "mem"
    /\ calls[g].pc = "idle"
    /\ ~(ops.pc # "idle" /\ ops.g = g)
    /\ nwith < MaxWith
    /\ nwith' = nwith + 1
    /\ calls' = [calls EXCEPT ![g] =
                    [NoCall EXCEPT !.pc = "wait", !.tag = "With", !.kv = kv]]
    /\ UNCHANGED <<env, cfg, pc, kind, err, handles, levelVar, atomicLevel,
                   logLevel, req, resp, lastPut, buffer, injectedFields, mu,
                   ncalls, history, ops, entries, slogOut>>
    /\ UNCHANGED restVars

\* l.mu.Lock() of With returning
WithLocks(g) ==
    /\ calls[g].pc = "wait" /\ calls[g].tag = "With"
    /\ mu = ""
    /\ mu' = g
    /\ ops' = [pc |-> "append", g |-> g, op |-> "With", kv |-> calls[g].kv,
               base |-> Len(injectedFields), n |-> 0, at |-> 0, ret |-> Nil,
               past |-> ops.past, i |-> 1]
    /\ calls' = [calls EXCEPT ![g] = NoCall]
    /\ UNCHANGED <<env, cfg, pc, kind, err, handles, levelVar, atomicLevel,
                   logLevel, req, resp, lastPut, buffer, injectedFields,
                   ncalls, history, nwith, entries, slogOut>>
    /\ UNCHANGED restVars

\* an Entries call arriving at l.mu.Lock()
EntriesWaits(g) ==
    /\ pc = "ready" /\ kind = "mem"
    /\ calls[g].pc = "idle"
    /\ ~(ops.pc # "idle" /\ ops.g = g)
    /\ calls' = [calls EXCEPT ![g] =
                    [NoCall EXCEPT !.pc = "wait", !.tag = "Entries"]]
    /\ UNCHANGED <<env, cfg, pc, kind, err, handles, levelVar, atomicLevel,
                   logLevel, req, resp, lastPut, buffer, injectedFields, mu,
                   ncalls, history, fieldOps, slogOut>>
    /\ UNCHANGED restVars

\* l.mu.Lock() of Entries returning
EntriesLocks(g) ==
    /\ calls[g].pc = "wait" /\ calls[g].tag = "Entries"
    /\ mu = ""
    /\ mu' = g
    /\ ops' = [NoOp EXCEPT !.pc = "split", !.g = g, !.op = "Entries",
                           !.past = ops.past]
    /\ calls' = [calls EXCEPT ![g] = NoCall]
    /\ UNCHANGED <<env, cfg, pc, kind, err, handles, levelVar, atomicLevel,
                   logLevel, req, resp, lastPut, buffer, injectedFields,
                   ncalls, history, nwith, entries, slogOut>>
    /\ UNCHANGED restVars

\* l.mu.Lock() returning in the call of the goroutine
Lock(g) == logLock(g) \/ WithLocks(g) \/ EntriesLocks(g)

\* the next step of the goroutine in a call that holds the mutex
Run(g) ==
    \/ logHeader(g) \/ logPairs(g) \/ logFields(g) \/ logNewline(g)
    \/ memWithAppend(g) \/ memWithReturn(g)
    \/ EntriesReturn(g)

\* the steps of calls that have begun
StepLive == \E g \in Goroutines : Lock(g) \/ Run(g)

\* a leveled call whose test fails (Debug at level info), one whose test
\* passes (Info; Warn, Error and Fatal reach l.log the same way), With and
\* Entries, each waiting for the mutex where the code calls l.mu.Lock();
\* Entries is called once, by the first goroutine
NextLive ==
    \/ NewLogger
    \/ \E g \in Goroutines, msg \in Messages : Debug(g, msg, <<>>)
    \/ \E g \in Goroutines, msg \in Messages : Info(g, msg, <<>>)
    \/ \E g \in Goroutines : WithWaits(g, <<"a", "1">>)
    \/ ~entries.called /\ EntriesWaits("g1")
    \/ StepLive

\* a goroutine that can run does run, and a goroutine waiting in
\* sync.Mutex.Lock gets the mutex when it is released again and again
Fairness == \A g \in Goroutines : SF_vars(Lock(g)) /\ WF_vars(Run(g))

SpecLive == InitInfo /\ [][NextLive]_vars /\ Fairness

----------------------------------------------------------------------------
(* A second logger, constructed independently of the first *)

\* the constructors returning the cell of the last logger, when there is one
newCellShared(n) == IF n = 0 THEN 1 ELSE n

\* new(bytes.Buffer), &InMemoryLogger{...} and &slog.LevelVar{}: a cell
\* that no logger constructed before has; n loggers exist, in cells 1..n
newCell(n) == n + 1

\* the cell of the first logger
FirstCell == newCell(0)

\* what the second logger's fields denote: its own record, or the
\* variables of the first logger when both live in one cell
otherMu == IF other.cell = FirstCell THEN mu ELSE other.mu
otherBuffer == IF other.cell = FirstCell THEN buffer ELSE other.buffer
otherFields ==
    IF other.cell = FirstCell THEN injectedFields ELSE other.injectedFields
otherLevel ==
    IF other.cell # FirstCell THEN other.level
    ELSE IF other.kind = "slog" THEN SlogLevelString(levelVar)
    ELSE logLevel

\* the configurations of the second logger
OtherConfigs ==
    {c \in Configs : /\ c.Backend \in {SlogBackend, InMemoryBackend}
                     /\ c.LogLevel \in {"", DebugLevel}}

\* newSlogLogger / newInMemoryLogger called a second time
NewOther(c) ==
    /\ pc = "ready" /\ kind \in {"slog", "mem"}
    /\ other.kind = "nil"
    /\ other' = [NoOther EXCEPT
                    !.kind = IF c.Backend = SlogBackend THEN "slog"
                             ELSE "mem",
                    !.level = IF c.Backend = SlogBackend
                              THEN SlogLevelString(newSlogLoggerLevel(c, env))
                              ELSE newInMemoryLoggerLevel(c),
                    !.cell = newCell(1)]
    /\ UNCHANGED <<env, cfg, pc, kind, err, handles, levelVar, atomicLevel,
                   logLevel, req, resp, lastPut, memVars, slogOut, noops,
                   got>>

\* Error or With on the second in-memory logger, up to l.mu.Lock(); the
\* level of the second logger lets Error pass its test
otherCall(g, op) ==
    /\ other.kind = "mem" /\ other.op = ""
    /\ other.n < MaxOtherOps
    /\ otherMu = ""
    /\ IF other.cell = FirstCell
       THEN /\ mu' = g
            /\ other' = [other EXCEPT !.op = op, !.n = @ + 1]
       ELSE /\ mu' = mu
            /\ other' = [other EXCEPT !.mu = g, !.op = op, !.n = @ + 1]
    /\ UNCHANGED <<env, cfg, pc, kind, err, handles, levelVar, atomicLevel,
                   logLevel, req, resp, lastPut, buffer, injectedFields,
                   calls, ncalls, history, fieldOps, slogOut, noops, got>>

\* the rest of the call: the entry written or the fields appended, then
\* the deferred l.mu.Unlock()
otherReturn(g) ==
    /\ other.op # "" /\ otherMu = g
    /\ LET line == <<"[", "ERROR", "] ", "test">>
                     \o FormatFields(otherFields, 1) \o <<"\n">>
           b == IF other.op = "log" THEN otherBuffer \o line
                ELSE otherBuffer
           f == IF other.op = "With"
                THEN memWithFields(otherFields, <<"a", "1">>)
                ELSE otherFields
       IN  IF other.cell = FirstCell
           THEN /\ buffer' = b /\ injectedFields' = f /\ mu' = ""
                /\ other' = [other EXCEPT !.op = ""]
           ELSE /\ UNCHANGED <<buffer, injectedFields, mu>>
                /\ other' = [other EXCEPT !.buffer = b,
                                !.injectedFields = f, !.mu = "", !.op = ""]
    /\ UNCHANGED <<env, cfg, pc, kind, err, handles, levelVar, atomicLevel,
                   logLevel, req, resp, lastPut, calls, ncalls, history,
                   fieldOps, slogOut, noops, got>>

\* a PUT request to the control endpoint of the second slog logger
otherPut(body) ==
    /\ other.kind = "slog"
    /\ other.n < MaxOtherOps
    /\ LET out == slogPut([level |-> LevelCell], body)
       IN  IF other.cell = FirstCell
           THEN /\ levelVar' = IF out.set THEN out.level ELSE levelVar
                /\ other' = [other EXCEPT !.n = @ + 1]
           ELSE /\ levelVar' = levelVar
                /\ other' = [other EXCEPT
                                !.level = IF out.set
                                          THEN SlogLevelString(out.level)
                                          ELSE @,
                                !.n = @ + 1]
    /\ UNCHANGED <<env, cfg, pc, kind, err, handles, atomicLevel, logLevel,
                   req, resp, lastPut, memVars, slogOut, noops, got>>

\* two loggers, slog or in-memory each, and the calls that write their
\* level, buffer, fields and mutex
InitTwo ==
    /\ InitNew
    /\ env = ""
    /\ cfg.LogLevel \in {"", WarnLevel}
    /\ cfg.Backend \in {SlogBackend, InMemoryBackend}

NextTwo ==
    \/ NewLogger
    \/ \E r \in PutRequests : slogHTTPLevelHandler(1, r)
    \/ \E g \in Goroutines, msg \in Messages : Error(g, msg, <<>>)
    \/ \E g \in Goroutines : logLock(g)
    \/ \E g \in Goroutines : logHeader(g)
    \/ \E g \in Goroutines : logPairs(g)
    \/ \E g \in Goroutines : logFields(g)
    \/ \E g \in Goroutines : logNewline(g)
    \/ \E g \in Goroutines : memWith(g, <<"a", "1">>)
    \/ \E g \in Goroutines : memWithAppend(g)
    \/ \E g \in Goroutines : memWithReturn(g)
    \/ \E c \in OtherConfigs : NewOther(c)
    \/ \E g \in OtherGoroutines, op \in {"log", "With"} : otherCall(g, op)
    \/ \E g \in OtherGoroutines : otherReturn(g)
    \/ \E r \in PutRequests : otherPut(r.body)

SpecTwo == InitTwo /\ [][NextTwo]_vars

----------------------------------------------------------------------------
(* Vocabulary of the properties *)

\* the total order debug < info < warn < error < fatal
Rank(level) ==
    CASE level = DebugLevel -> 0
      [] level = InfoLevel  -> 1
      [] level = WarnLevel  -> 2
      [] level = ErrorLevel -> 3
      [] level = FatalLevel -> 4

\* the level a severity tag stands for, and strings.ToUpper on level names
TagLevel(tag) ==
    CASE tag = "DEBUG" -> DebugLevel
      [] tag = "INFO"  -> InfoLevel
      [] tag = "WARN"  -> WarnLevel
      [] tag = "ERROR" -> ErrorLevel
      [] tag = "FATAL" -> FatalLevel

ToUpper(level) ==
    CASE level = DebugLevel -> "DEBUG"
      [] level = InfoLevel  -> "INFO"
      [] level = WarnLevel  -> "WARN"
      [] level = ErrorLevel -> "ERROR"
      [] level = FatalLevel -> "FATAL"

\* the last request was served by the slog handler, past the authorization
Served == req.h # 0
Authorized == Served /\ req.auth # "deny"
OnConstructed == req.h = 1
HasLevel(body) == body.json = "object" /\ body.key
ValidLevelBody == HasLevel(req.body) /\ req.body.level \in LevelStrings

\* the buffer holds the opening of an entry with this tag
HasEntry(tag) ==
    \E i \in 1..(Len(buffer) - 1) : buffer[i] = "[" /\ buffer[i + 1] = tag

\* a log call of the in-memory logger holds the mutex
InFlight ==
    \E g \in Goroutines : calls[g].pc \in {"header", "kv", "fields", "newline"}

\* the number of log calls that took the mutex and have returned
Done == IF InFlight THEN Len(history) - 1 ELSE Len(history)

\* s is an initial part of t
IsPrefix(s, t) == Len(s) <= Len(t) /\ s = SubSeq(t, 1, Len(s))

\* one " key=value" token per full pair of kv, in order
PairsText(kv) ==
    [i \in 1..(4 * (Len(kv) \div 2)) |->
        LET j == ((i - 1) \div 4) + 1
            r == (i - 1) % 4
        IN  CASE r = 0 -> " "
              [] r = 1 -> kv[2 * j - 1]
              [] r = 2 -> "="
              [] r = 3 -> kv[2 * j]]

\* the key=value fields of the full pairs of kv, in order
PairsOf(kv) ==
    [j \in 1..(Len(kv) \div 2) |-> <<kv[2 * j - 1], "=", kv[2 * j]>>]

\* one " key=value" token per field, in order
FieldsText(fields) ==
    [i \in 1..(4 * Len(fields)) |->
        IF (i - 1) % 4 = 0 THEN " "
        ELSE fields[((i - 1) \div 4) + 1][(i - 1) % 4]]

\* the fields of the first k With calls that returned, in order of return
RECURSIVE PastFields(_)
PastFields(k) ==
    IF k = 0 THEN <<>> ELSE PastFields(k - 1) \o PairsOf(ops.past[k].kv)

\* the number of With calls that had returned when the i-th log call took
\* the mutex
ReturnedBefore(i) ==
    Cardinality({k \in DOMAIN ops.past : ops.past[k].at < i})

\* the text of the i-th log call with the given injected fields
LineWith(i, fields) ==
    <<"[", history[i].tag, "] ">> \o history[i].msg
        \o PairsText(history[i].kv) \o FieldsText(fields) \o <<"\n">>

\* the entries of the first n log calls, each with the fields of the With
\* calls that returned before it took the mutex
RECURSIVE TextAfterWith(_)
TextAfterWith(n) ==
    IF n = 0 THEN <<>>
    ELSE TextAfterWith(n - 1) \o LineWith(n, PastFields(ReturnedBefore(n)))

\* the entries of the first n log calls, each with the injected fields it
\* found when it took the mutex
RECURSIVE Text(_)
Text(n) ==
    IF n = 0 THEN <<>>
    ELSE Text(n - 1)
           \o LineWith(n, SubSeq(injectedFields, 1, history[n].nf))

\* the number of line terminators in a text
Terminators(t) == Cardinality({k \in 1..Len(t) : t[k] = "\n"})

\* the text of the i-th log call without its line terminator
Entry(i) ==
    LET line == LineWith(i, SubSeq(injectedFields, 1, history[i].nf))
    IN  SubSeq(line, 1, Len(line) - 1)

\* the level a slog logger stands at after a PUT of this level: slog has
\* no fatal level, and both Fatal calls and a PUT of fatal use error
Capped(level) == IF level = FatalLevel THEN ErrorLevel ELSE level

----------------------------------------------------------------------------
(* Properties *)

\* C1: in the in-memory backend a leveled call writes an entry if and only
\* if the rank of its severity is at least the rank of the current level;
\* a call that is still writing has passed that test, and a returned call
\* that wrote has left its tag in the buffer.
C1_EmitIffRank ==
    \A g \in Goroutines :
        calls[g].tag # "" =>
            LET passes == Rank(TagLevel(calls[g].tag)) >= Rank(logLevel)
            IN  /\ calls[g].pc # "idle" => passes
                /\ calls[g].pc = "idle" => (calls[g].wrote <=> passes)
                /\ calls[g].wrote => HasEntry(calls[g].tag)
                /\ calls[g].tag = "FATAL" /\ calls[g].pc = "idle"
                     => calls[g].wrote

\* at level warn one goroutine has returned from Info without writing and
\* the other from Fatal with its entry written
C1_Witness ==
    /\ logLevel = WarnLevel
    /\ \E g, k \in Goroutines :
        /\ calls[g].pc = "idle" /\ calls[g].tag = "INFO" /\ ~calls[g].wrote
        /\ calls[k].pc = "idle" /\ calls[k].tag = "FATAL" /\ calls[k].wrote

\* C2 as stated: an authorized PUT of any of the five level strings on the
\* constructed slog logger answers 200 and LogLevel() then names that level.
C2_Original ==
    (kind = "slog" /\ Authorized /\ OnConstructed /\ req.method = "PUT"
        /\ ValidLevelBody)
    => /\ resp.status = StatusOK
       /\ CurrentLevel = ToUpper(req.body.level)

\* C2 amended: such a PUT answers 200 and the level becomes the one named,
\* except that "fatal" stores ERROR, slog having no fatal level.
C2_PutSetsLevel ==
    (kind = "slog" /\ Authorized /\ OnConstructed /\ req.method = "PUT"
        /\ ValidLevelBody)
    => /\ resp.status = StatusOK
       /\ ~resp.panicked
       /\ CurrentLevel = IF req.body.level = FatalLevel THEN "ERROR"
                         ELSE ToUpper(req.body.level)

\* a PUT of "fatal" answered 200 that moved the level to ERROR
C2_Witness ==
    /\ kind = "slog" /\ Authorized /\ OnConstructed /\ req.method = "PUT"
    /\ HasLevel(req.body) /\ req.body.level = FatalLevel
    /\ resp.status = StatusOK
    /\ resp.before # "ERROR"
    /\ CurrentLevel = "ERROR"

\* C3: a request the authorization predicate rejects is answered 403
\* "unauthorized" whatever its method, body and handle, on slog and on zap,
\* and the level store keeps its value.
C3_DeniedIs403 ==
    (Served /\ req.auth = "deny")
    => /\ resp.status = StatusForbidden
       /\ resp.text = "unauthorized"
       /\ ~resp.panicked
       /\ CurrentLevel = resp.before

\* a rejected PUT of a valid level other than the current one
C3_Witness ==
    /\ kind = "slog" /\ Served /\ req.auth = "deny" /\ req.method = "PUT"
    /\ ValidLevelBody /\ ToUpper(req.body.level) # CurrentLevel
    /\ resp.status = StatusForbidden

\* C4: an authorized PUT to the slog handler whose body is well-formed JSON
\* without a valid level string (unknown, wrong case, empty, absent, not a
\* string) is answered 400 and the level store keeps its value.
C4_InvalidLevelIs400 ==
    (kind = "slog" /\ Authorized /\ req.method = "PUT"
        /\ WellFormed(req.body) /\ ~ValidLevelBody)
    => /\ resp.status = StatusBadRequest
       /\ CurrentLevel = resp.before

\* an authorized PUT of {"level":"foo"} answered 400
C4_Witness ==
    /\ kind = "slog" /\ Authorized /\ req.method = "PUT"
    /\ HasLevel(req.body) /\ req.body.level = "foo"
    /\ resp.status = StatusBadRequest /\ resp.text = "invalid log level"

ConstructionLevel == SlogLevelString(newSlogLoggerLevel(cfg, env))

\* C6 as stated: an authorized GET on the constructed slog logger answers
\* 200 with the level the last successful PUT asked for, or the
\* construction-time level, and leaves the level store alone.
C6_Original ==
    (kind = "slog" /\ Authorized /\ OnConstructed /\ req.method = "GET")
    => /\ resp.status = StatusOK
       /\ resp.level = IF lastPut = "none" THEN ConstructionLevel
                       ELSE ToUpper(lastPut)
       /\ CurrentLevel = resp.before

\* C6 amended: the level in the body is the one the last successful PUT
\* stored, which is ERROR when that PUT asked for "fatal".
C6_GetReportsLevel ==
    (kind = "slog" /\ Authorized /\ OnConstructed /\ req.method = "GET")
    => /\ resp.status = StatusOK
       /\ resp.ctype = "json"
       /\ resp.level = IF lastPut = "none" THEN ConstructionLevel
                       ELSE IF lastPut = FatalLevel THEN "ERROR"
                       ELSE ToUpper(lastPut)
       /\ CurrentLevel = resp.before

\* a GET that follows a successful PUT of a level other than the one the
\* logger was constructed with
C6_Witness ==
    /\ kind = "slog" /\ Authorized /\ OnConstructed /\ req.method = "GET"
    /\ lastPut = WarnLevel /\ ConstructionLevel # "WARN"
    /\ resp.status = StatusOK /\ resp.level = "WARN"

\* C7: a request to the slog handler that passes the authorization, or that
\* meets no predicate, with a method other than GET and PUT is answered 405
\* and the level store keeps its value, on every handle.
C7_OtherMethodIs405 ==
    (kind = "slog" /\ Authorized /\ req.method \notin {"GET", "PUT"})
    => /\ resp.status = StatusMethodNotAllowed
       /\ ~resp.panicked
       /\ CurrentLevel = resp.before

\* a POST with no predicate, carrying a valid level, answered 405
C7_Witness ==
    /\ kind = "slog" /\ Served /\ req.auth = "none" /\ req.method = "POST"
    /\ ValidLevelBody /\ ToUpper(req.body.level) # CurrentLevel
    /\ resp.status = StatusMethodNotAllowed

\* C8: the in-memory logger's control handler answers 501 to every request
\* and the logger keeps the level it was constructed with.
C8_InMemoryIs501 ==
    (kind = "mem" /\ Served)
    => /\ resp.status = StatusNotImplemented
       /\ logLevel = resp.before
       /\ logLevel = newInMemoryLoggerLevel(cfg)

\* a PUT of "debug" to an in-memory logger at another level, answered 501
C8_Witness ==
    /\ kind = "mem" /\ Served /\ req.method = "PUT"
    /\ HasLevel(req.body) /\ req.body.level = DebugLevel
    /\ logLevel # DebugLevel
    /\ resp.status = StatusNotImplemented

\* C9: every request served on any handle of a slog or zap logger, handles
\* returned by With and WithContext included, ends in a response with
\* status 200, 400, 403 or 405 and never in a panic.
C9_AlwaysResponds ==
    (kind \in {"slog", "zap"} /\ Served)
    => /\ ~resp.panicked
       /\ resp.status \in {StatusOK, StatusBadRequest, StatusForbidden,
                           StatusMethodNotAllowed}

\* C10: constructing an in-memory or slog logger from a level string that
\* is empty or not one of the five valid ones gives level INFO and no
\* error.  The string is Config.LogLevel for the in-memory logger and the
\* result of getLogLevel for slog.
C10_InvalidGivesInfo ==
    /\ (kind = "mem" /\ cfg.LogLevel \notin LevelStrings)
         => (logLevel = InfoLevel /\ err = "nil" /\ pc = "ready")
    /\ (kind = "slog" /\ getLogLevel(cfg, env) \notin LevelStrings)
         => (levelVar = SlogLevelInfo /\ err = "nil" /\ pc = "ready")

\* an in-memory logger constructed from "foo" stands at info
C10_Witness ==
    /\ kind = "mem" /\ pc = "ready"
    /\ cfg.LogLevel = "foo"
    /\ logLevel = InfoLevel

\* C11 as stated, on the slog backend: the level at construction is the one
\* named by AZA_LOG_LEVEL when that is set and one of the five valid names,
\* otherwise the one named by Config.LogLevel when that is valid, otherwise
\* INFO; an invalid value of the environment does not keep a valid
\* configuration level from being used.
C11_Original ==
    (kind = "slog" /\ pc = "ready")
    => LET resolved == IF env \in LevelStrings THEN env
                       ELSE IF cfg.LogLevel \in LevelStrings
                            THEN cfg.LogLevel
                            ELSE InfoLevel
       IN  levelVar = parseSlogLevel(resolved).level

\* C12 as stated: whatever backend NewLogger constructs, when both
\* AZA_LOG_LEVEL and Config.LogLevel hold one of the five valid names the
\* logger's level is the one the environment names.
C12_Original ==
    (pc = "ready" /\ env \in LevelStrings /\ cfg.LogLevel \in LevelStrings)
    => /\ kind = "slog" => SlogLevelString(levelVar) = ToUpper(env)
       /\ kind = "zap" => atomicLevel = env
       /\ kind = "mem" => logLevel = env

\* C12: with a valid name in both AZA_LOG_LEVEL and Config.LogLevel, the
\* slog and zap loggers take the environment's: zap stands at the level it
\* names, slog at the level parseSlogLevel gives it, which is that level
\* for debug, info, warn and error and ERROR for fatal.  The in-memory
\* logger does not read the environment and stands at the configuration's
\* level.
C12_EnvOverridesConfig ==
    (pc = "ready" /\ env \in LevelStrings /\ cfg.LogLevel \in LevelStrings)
    => /\ kind = "slog" =>
             /\ levelVar = parseSlogLevel(env).level
             /\ env # FatalLevel => SlogLevelString(levelVar) = ToUpper(env)
             /\ env = FatalLevel => levelVar = SlogLevelError
       /\ kind = "zap" => atomicLevel = env
       /\ kind = "mem" => logLevel = cfg.LogLevel

\* a slog logger constructed with debug in the environment and error in the
\* configuration stands at DEBUG
C12_Witness ==
    /\ kind = "slog" /\ pc = "ready"
    /\ env = DebugLevel /\ cfg.LogLevel = ErrorLevel
    /\ levelVar = SlogLevelDebug

\* C13: the injected fields of the in-memory logger only grow.  They are
\* at any time the key=value fields of the full pairs passed to the With
\* calls that have returned, in the order of the calls, followed by those
\* the With call that holds the mutex has got to; every entry written
\* by a log call that took the mutex after some With calls returned holds
\* the fields of those calls, in that order, after its own pairs; and no
\* step removes or reorders a field.
C13_FieldsOnlyGrow ==
    /\ [](kind = "mem" =>
            /\ injectedFields
                 = PastFields(Len(ops.past))
                     \o (IF ops.pc = "append"
                         THEN PairsOf(SubSeq(ops.kv, 1,
                                             IterationEnd(ops.kv, ops.i - 2)))
                         ELSE <<>>)
            /\ IsPrefix(TextAfterWith(Done), buffer))
    /\ [][IsPrefix(injectedFields, injectedFields')]_vars

\* With("a", "1") and then With("b", "2", "x") have returned; a first entry
\* was written before both and a second after both
C13_Witness ==
    /\ Len(ops.past) = 2
    /\ injectedFields = << <<"a", "=", "1">>, <<"b", "=", "2">> >>
    /\ ~InFlight /\ Len(history) = 2
    /\ history[1].nf = 0 /\ history[2].nf = 2
    /\ buffer = TextAfterWith(2)

\* C14: a With call of n arguments has appended floor(n / 2) fields when it
\* returns, those of its full pairs; a call of a single argument leaves the
\* fields as they were.
C14_WithAppendsHalf ==
    (ops.op = "With" /\ ops.pc = "idle")
    => /\ ops.n = Len(ops.kv) \div 2
       /\ Len(ops.kv) = 1 => ops.n = 0
       /\ Len(injectedFields) >= ops.base + ops.n
       /\ \A j \in 1..ops.n :
            injectedFields[ops.base + j]
                = <<ops.kv[2 * j - 1], "=", ops.kv[2 * j]>>

\* With("x") has returned and left no field, then With("b", "2", "x") has
\* returned and left one
C14_Witness ==
    /\ ops.op = "With" /\ ops.pc = "idle"
    /\ Len(ops.past) = 2
    /\ ops.past[1].kv = <<"x">>
    /\ ops.kv = <<"b", "2", "x">>
    /\ injectedFields = << <<"b", "=", "2">> >>

\* C15 as stated: when N log calls have been emitted, Entries returns
\* N + 1 elements, the N formatted entries in order and then one empty
\* string.
C15_Original ==
    entries.called
    => /\ Len(entries.out) = entries.n + 1
       /\ \A i \in 1..entries.n : entries.out[i] = Entry(i)
       /\ entries.out[Len(entries.out)] = <<>>

\* C15: Entries returns the pieces of the buffer between its line
\* terminators, one more than there are terminators, and the last piece is
\* empty.  When none of the N emitted log calls wrote a line terminator
\* inside its entry these are N + 1 elements: the N formatted entries in
\* order and one empty string.
C15_EntriesSplitsBuffer ==
    entries.called
    => /\ Len(entries.out) = Terminators(Text(entries.n)) + 1
       /\ entries.out[Len(entries.out)] = <<>>
       /\ (\A i \in 1..entries.n : Terminators(Entry(i)) = 0)
            => /\ Len(entries.out) = entries.n + 1
               /\ \A i \in 1..entries.n : entries.out[i] = Entry(i)

\* after a Debug call that the level suppressed and an Info call of a
\* one-line message Entries has returned the entry and an empty string
C15_Witness ==
    /\ entries.called /\ entries.n = 1
    /\ ncalls = 2
    /\ \E g \in Goroutines :
         calls[g].tag = "DEBUG" /\ calls[g].pc = "idle" /\ ~calls[g].wrote
    /\ history[1].msg = <<"test">> /\ history[1].kv = <<"app", "myapp">>
    /\ entries.out = << <<"[", "INFO", "] ", "test", " ", "app", "=",
                          "myapp">>, <<>> >>

\* C16: the entries of the buffer are those of the log calls in the order
\* in which the calls took the mutex, which for the calls of one goroutine
\* is the order in which it made them; what Entries returns is that text,
\* up to the calls that had taken the mutex when it read, split at the line
\* terminators.
C16_LockOrder ==
    /\ \A i, j \in 1..Len(history) :
         (i < j /\ history[i].g = history[j].g)
            => history[i].seq < history[j].seq
    /\ IsPrefix(Text(Done), buffer)
    /\ entries.called => entries.out = EntriesResult(Text(entries.n))

\* the goroutine that made its call second took the mutex first, and
\* Entries returned the two entries in the order of the mutex
C16_Witness ==
    /\ entries.called /\ entries.n = 2
    /\ history[1].g # history[2].g
    /\ history[1].seq > history[2].seq
    /\ history[1].kv # history[2].kv
    /\ entries.out = <<Entry(1), Entry(2), <<>> >>

\* C17: With on the in-memory logger returns the pointer it was called on,
\* not a copy: the fields it injected are those of the one logger, and
\* every log call that takes the mutex after With returned finds them.
C17_WithReturnsReceiver ==
    (kind = "mem" /\ ops.op = "With" /\ ops.pc = "idle")
    => /\ ops.ret = MemLogger
       /\ \A i \in (ops.at + 1)..Len(history) :
            /\ history[i].nf >= ops.base + ops.n
            /\ \A j \in 1..ops.n :
                 injectedFields[ops.base + j] = PairsOf(ops.kv)[j]

\* With("a", "1") has returned the logger and a log call made afterwards
\* has written its entry with a=1
C17_Witness ==
    /\ ops.op = "With" /\ ops.pc = "idle" /\ ops.kv = <<"a", "1">>
    /\ ops.ret = MemLogger
    /\ ~InFlight /\ Len(history) = ops.at + 1
    /\ history[Len(history)].nf = 1
    /\ buffer = Text(Len(history))

\* C18: every entry in the buffer is "[", the upper-case tag of the call's
\* severity, "] ", the message, one " key=value" per full pair of the
\* call's arguments in order with an unpaired last argument skipped, one
\* " field" per injected field in order, and a line terminator; a call
\* that holds the mutex has written an initial part of its entry.
C18_EntryFormat ==
    /\ \A i \in 1..Len(history) :
         history[i].tag \in {ToUpper(l) : l \in LevelStrings}
    /\ IsPrefix(Text(Done), buffer)
    /\ ~InFlight => buffer = Text(Done)
    /\ InFlight => IsPrefix(buffer, Text(Len(history)))

\* after With("a", "1") one call with a lone key and one with a full pair
\* have written "[INFO] test a=1" and "[ERROR] test app=myapp a=1"
C18_Witness ==
    /\ ~InFlight /\ Len(history) = 2
    /\ buffer = <<"[", "INFO", "] ", "test", " ", "a", "=", "1", "\n",
                  "[", "ERROR", "] ", "test", " ", "app", "=", "myapp",
                  " ", "a", "=", "1", "\n">>
    /\ history[1].kv = <<"app">>

\* C19 as stated, on slog: a log call made after a PUT of a level was
\* answered 200 writes its record if and only if the rank of its severity
\* is at least the rank of the level that was put.
C19_Original ==
    (lastLog.n > 0 /\ lastLog.put # "none")
    => (lastLog.emitted
          <=> Rank(TagLevel(lastLog.tag)) >= Rank(lastLog.put))

\* C19: on any handle of a slog logger, a log call made after a PUT of a
\* level was answered 200 writes its record if and only if the rank of the
\* severity it logs at is at least the rank of the level the logger then
\* stands at, where Fatal logs at error and a PUT of fatal leaves the
\* logger at error; the record is the last one written, and no step
\* removes or alters a record written before.
C19_GatedByNewLevel ==
    /\ []((lastLog.n > 0 /\ lastLog.put # "none")
            => /\ lastLog.emitted
                    <=> Rank(Capped(TagLevel(lastLog.tag)))
                            >= Rank(Capped(lastLog.put))
               /\ lastLog.emitted
                    => /\ stdout # <<>>
                       /\ stdout[Len(stdout)].level
                            = ToUpper(Capped(TagLevel(lastLog.tag))))
    /\ [][IsPrefix(stdout, stdout')]_vars

\* an Info call wrote its record, a PUT of error was answered 200, and a
\* Warn call made afterwards wrote nothing
C19_Witness ==
    /\ lastLog.n = 2 /\ lastLog.tag = "WARN" /\ ~lastLog.emitted
    /\ lastLog.put = ErrorLevel
    /\ levelVar = SlogLevelError
    /\ stdout = <<[level |-> "INFO"]>>

\* C20: NewLogger called with a backend that is none of ZapBackend,
\* SlogBackend and InMemoryBackend returns ErrUnsupportedBackend and a nil
\* logger; called with one of the three it returns a logger of that
\* backend's type and a nil error.
C20_NewLoggerResult ==
    pc # "start"
    => /\ cfg.Backend \notin {ZapBackend, SlogBackend, InMemoryBackend}
            => (err = "ErrUnsupportedBackend" /\ kind = "nil"
                  /\ pc = "failed")
       /\ cfg.Backend = ZapBackend => (kind = "zap" /\ err = "nil")
       /\ cfg.Backend = SlogBackend => (kind = "slog" /\ err = "nil")
       /\ cfg.Backend = InMemoryBackend => (kind = "mem" /\ err = "nil")
       /\ kind # "nil" => pc = "ready"

\* NewLogger has returned ErrUnsupportedBackend and no logger for the
\* backend 1000
C20_Witness ==
    /\ cfg.Backend = UnknownBackend
    /\ pc = "failed"
    /\ err = "ErrUnsupportedBackend" /\ kind = "nil"

\* C21 as stated, on the slog and in-memory handlers: the level after a
\* request differs from the level before it only when the request is a PUT
\* answered 200, and it is then the level the request names; after any
\* request the level is the one before or the valid one the request names.
C21_Original ==
    (Served /\ kind \in {"slog", "mem"})
    => /\ CurrentLevel # resp.before
            => (req.method = "PUT" /\ resp.status = StatusOK)
       /\ (req.method = "PUT" /\ resp.status = StatusOK)
            => (ValidLevelBody /\ CurrentLevel = ToUpper(req.body.level))
       /\ \/ CurrentLevel = resp.before
          \/ ValidLevelBody /\ CurrentLevel = ToUpper(req.body.level)

\* C21: a request leaves the level as it was unless it is a PUT answered
\* 200.  On slog a PUT answered 200 names a valid level and leaves the
\* logger at the level parseSlogLevel gives that name, which is the named
\* level for debug, info, warn and error and ERROR for fatal; after any
\* request the level is the one before or that one.  The in-memory handler
\* never changes the level, and neither does a zap request answered 403 or
\* ended by a panic.
C21_ChangeOnlyByPut200 ==
    /\ (Served /\ kind = "slog")
         => /\ CurrentLevel # resp.before
                 => (req.method = "PUT" /\ resp.status = StatusOK
                       /\ ~resp.panicked)
            /\ (req.method = "PUT" /\ resp.status = StatusOK)
                 => /\ ValidLevelBody
                    /\ levelVar = parseSlogLevel(req.body.level).level
                    /\ CurrentLevel = ToUpper(Capped(req.body.level))
            /\ \/ CurrentLevel = resp.before
               \/ ValidLevelBody
                    /\ CurrentLevel = ToUpper(Capped(req.body.level))
    /\ (Served /\ kind = "mem") => CurrentLevel = resp.before
    /\ (Served /\ kind = "zap"
            /\ (resp.status = StatusForbidden \/ resp.panicked))
         => CurrentLevel = resp.before

\* an authorized PUT of warn on a slog logger at INFO was answered 200 and
\* left it at WARN
C21_Witness ==
    /\ kind = "slog" /\ Served /\ req.method = "PUT"
    /\ req.body.level = WarnLevel
    /\ resp.status = StatusOK /\ resp.before = "INFO"
    /\ levelVar = SlogLevelWarn

\* C22: the level of a slog logger is always one of the four levels slog
\* names DEBUG, INFO, WARN and ERROR, and the level of an in-memory logger
\* is always one of the five valid level strings, whatever strings the
\* logger was constructed from and whatever calls and requests followed.
C22_LevelAlwaysValid ==
    /\ kind = "slog"
         => /\ levelVar \in {SlogLevelDebug, SlogLevelInfo, SlogLevelWarn,
                              SlogLevelError}
            /\ CurrentLevel \in {"DEBUG", "INFO", "WARN", "ERROR"}
    /\ kind = "mem"
         => logLevel \in {DebugLevel, InfoLevel, WarnLevel, ErrorLevel,
                          FatalLevel}

\* a slog logger constructed with "foo" in the environment has made a log
\* call and refused a PUT of "DEBUG" with 400, and stands at INFO
C22_Witness ==
    /\ kind = "slog" /\ env = "foo"
    /\ lastLog.n > 0
    /\ Served /\ req.body.level = "DEBUG"
    /\ resp.status = StatusBadRequest
    /\ levelVar = SlogLevelInfo

\* C23: the level of an in-memory logger is at all times the one it was
\* constructed with, Config.LogLevel when that is valid and info otherwise,
\* and LogLevel() returns it; no step of a log call, With, WithContext,
\* Sync, Entries or the control handler changes it.  A WithContext or Sync
\* call leaves the buffer and the injected fields as they were, and
\* WithContext returns the logger it was called on.
C23_LevelAndFrame ==
    /\ [](kind = "mem"
            => /\ logLevel = IF cfg.LogLevel \in LevelStrings
                             THEN cfg.LogLevel ELSE InfoLevel
               /\ got.h # 0 => (~got.panicked /\ got.level = logLevel)
               /\ noops.op = "WithContext" => noops.ret = MemLogger)
    /\ [][pc = "ready" => logLevel' = logLevel]_vars
    /\ [][noops' # noops
            => (buffer' = buffer /\ injectedFields' = injectedFields)]_vars

\* a logger constructed at warn has written an entry with an injected
\* field, answered a PUT with 501 and returned from WithContext, and
\* LogLevel() has returned warn
C23_Witness ==
    /\ kind = "mem" /\ cfg.LogLevel = WarnLevel
    /\ noops.op = "WithContext" /\ noops.ret = MemLogger
    /\ injectedFields # <<>> /\ ~InFlight /\ Len(history) = 1
    /\ history[1].nf = 1
    /\ entries.called
    /\ Served /\ resp.status = StatusNotImplemented
    /\ got.h = 1 /\ got.level = WarnLevel

\* C24 as stated: a log call of the in-memory logger that has read the
\* level and has not returned holds the mutex, so that its level test and
\* its writes lie in one critical section.
C24_Original ==
    \A g \in Goroutines : calls[g].pc # "idle" => mu = g

\* C24: a log call of the in-memory logger reads the level before it takes
\* the mutex and writes its entry while it holds it.  A call that passed
\* its level test may wait for the mutex while another goroutine holds it;
\* a call that is writing holds the mutex, so at most one call is writing;
\* and the level a waiting or writing call passed is still the logger's
\* level, which never changes.
C24_WriteUnderLock ==
    /\ \A g \in Goroutines :
         /\ calls[g].pc \in {"header", "kv", "fields", "newline"} => mu = g
         /\ calls[g].pc = "lock" => mu # g
         /\ calls[g].pc # "idle"
              => Rank(TagLevel(calls[g].tag)) >= Rank(logLevel)
    /\ \A g, k \in Goroutines :
         (g # k /\ calls[g].pc \in {"header", "kv", "fields", "newline"})
            => calls[k].pc \in {"idle", "lock"}

\* one goroutine has passed the level test of Warn and waits for the mutex
\* while the other holds it and writes
C24_Witness ==
    \E g, k \in Goroutines :
        /\ calls[g].pc = "lock" /\ calls[g].tag = "WARN"
        /\ mu = k /\ k # g
        /\ calls[k].pc = "kv"

\* C25: under concurrent log calls, With calls and Entries calls the
\* buffer is the whole entries of the calls that returned, one after the
\* other, followed by an initial part of the entry of the one call that is
\* writing; every log call found all or none of the fields of each With
\* call; and what Entries returned is whole entries and a final empty
\* string.
C25_NoInterleaving ==
    /\ IsPrefix(Text(Done), buffer)
    /\ IF InFlight THEN IsPrefix(buffer, Text(Len(history)))
                   ELSE buffer = Text(Len(history))
    /\ \A i \in 1..Len(history) :
         \E k \in 0..Len(ops.past) : history[i].nf = Len(PastFields(k))
    /\ entries.called
         => /\ Len(entries.out) = entries.n + 1
            /\ \A i \in 1..entries.n : entries.out[i] = Entry(i)
            /\ entries.out[entries.n + 1] = <<>>

\* two goroutines wrote one entry each, the first before and the second
\* after a With call of two pairs, and Entries then returned both
C25_Witness ==
    /\ Len(ops.past) = 1 /\ Len(injectedFields) = 2
    /\ ~InFlight /\ Len(history) = 2
    /\ history[1].g # history[2].g
    /\ history[1].nf = 0 /\ history[2].nf = 2
    /\ entries.called /\ entries.n = 2

\* C26: the buffer of the in-memory logger is only appended to.  What an
\* Entries call returned, without its final empty string, is an initial
\* part of what the next Entries call returns; the two are equal when no
\* log call took the mutex in between; no step, of Entries, of With or of
\* a log call, changes what the buffer already holds, and an Entries call
\* leaves the buffer as it is.
C26_AppendOnly ==
    /\ [](entries.prev # <<>>
            => /\ IsPrefix(SubSeq(entries.prev, 1, Len(entries.prev) - 1),
                           SubSeq(entries.out, 1, Len(entries.out) - 1))
               /\ entries.prevn = entries.n => entries.prev = entries.out)
    /\ [][IsPrefix(buffer, buffer')]_vars
    /\ [][entries' # entries => buffer' = buffer]_vars

\* Entries returned one entry, then a With call returned and a second log
\* call wrote its entry, and Entries returned the two entries
C26_Witness ==
    /\ Len(entries.prev) = 2 /\ Len(entries.out) = 3
    /\ entries.prev[1] = entries.out[1]
    /\ entries.out[2] # entries.out[1]
    /\ Len(ops.past) = 1 /\ ops.past[1].at = 1
    /\ history[2].nf = 2

\* C27: two loggers constructed independently share no state.  A step of
\* the first logger leaves the level, the buffer, the injected fields and
\* the mutex of the second as they are, a step of the second leaves those
\* of the first as they are, and a call on the second logger can take its
\* mutex whoever holds the mutex of the first.
C27_NoSharedState ==
    /\ [][(other.kind # "nil" /\ other' = other)
            => UNCHANGED <<otherLevel, otherBuffer, otherFields, otherMu>>]_vars
    /\ [][(other.kind # "nil" /\ other' # other)
            => UNCHANGED <<levelVar, logLevel, buffer, injectedFields, mu,
                           handles>>]_vars
    /\ [](other.kind = "mem" /\ other.op = "" /\ other.n < MaxOtherOps
            => \A g \in OtherGoroutines : ENABLED otherCall(g, "log"))

\* both mutexes held at once: the first logger has taken a field and
\* written an entry with it, the second has written an entry without
\* fields and is in a With call
C27_Witness ==
    /\ kind = "mem" /\ other.kind = "mem"
    /\ mu \in Goroutines /\ other.mu \in OtherGoroutines
    /\ Len(injectedFields) = 1 /\ other.injectedFields = <<>>
    /\ other.op = "With"
    /\ buffer # <<>> /\ other.buffer # <<>>
    /\ Len(other.buffer) < Len(buffer)

\* C28: on a slog or zap logger, LogLevel() called on a handle returned by
\* With, or by WithContext with a valid span, returns without failure the
\* level the logger stands at, which is what it returns on the parent.
C28_DerivedHasLevel ==
    (kind \in {"slog", "zap"} /\ got.h > 1)
    => (~got.panicked /\ got.level = got.store)

\* C29 as stated: on a handle derived by With before a PUT of a level was
\* answered 200 on the parent, a log call made after the PUT writes its
\* record if and only if the rank of its severity is at least the rank of
\* the level that was put.
C29_Original ==
    (lastLog.n > 0 /\ lastLog.h > 1 /\ lastLog.put # "none")
    => (lastLog.emitted
          <=> Rank(TagLevel(lastLog.tag)) >= Rank(lastLog.put))

\* C29: on a handle derived by With from a slog logger before a PUT of a
\* level was answered 200 on the parent, a log call made after the PUT
\* writes its record if and only if the rank of the severity it logs at is
\* at least the rank of the level the parent then stands at, where Fatal
\* logs at error and a PUT of fatal leaves the logger at error; that level
\* is the one the parent's store holds.
C29_DerivedGatedByParent ==
    (lastLog.n > 0 /\ lastLog.h > 1 /\ lastLog.put # "none")
    => /\ lastLog.emitted
            <=> Rank(Capped(TagLevel(lastLog.tag)))
                    >= Rank(Capped(lastLog.put))
       /\ ToUpper(Capped(lastLog.put)) = SlogLevelString(lastLog.level)

\* a handle was derived, a PUT of debug on the parent was answered 200, and
\* a Debug call on the derived handle wrote its record
C29_Witness ==
    /\ lastLog.h = 2 /\ lastLog.tag = "DEBUG" /\ lastLog.emitted
    /\ lastLog.put = DebugLevel
    /\ stdout = <<[level |-> "DEBUG"]>>

\* a call of the goroutine on the in-memory logger has begun and has not
\* returned
Busy(g) == calls[g].pc # "idle" \/ (ops.pc # "idle" /\ ops.g = g)

\* C30: under fair scheduling every leveled call, With call and Entries
\* call on one in-memory logger returns, whatever the other goroutine
\* does; the mutex is free when no call is in progress, it is held only by
\* a goroutine in a call, and while a call is in progress some call can
\* take a step.
C30_EveryCallReturns ==
    /\ \A g \in Goroutines : Busy(g) ~> ~Busy(g)
    /\ []((\A g \in Goroutines : ~Busy(g)) => mu = "")
    /\ [](mu # "" => Busy(mu))
    /\ []((\E g \in Goroutines : Busy(g)) => ENABLED StepLive)

\* one goroutine holds the mutex in With while the other waits for it in a
\* log call, after an Entries call returned
C30_Witness ==
    /\ ops.pc = "append" /\ mu = ops.g
    /\ \E g \in Goroutines : g # mu /\ calls[g].pc = "lock"
    /\ entries.called

====
